---- MODULE Spec2Model ----
(***************************************************************************)
(* Model of the request minimizer (backend of the squash plugin): the      *)
(* transport wrapper, the response oracle, the query / form-body / header  *)
(* / JSON reduction passes and the orchestrator minimizeRequest.           *)
(*                                                                         *)
(* One run of minimizeRequest is a sequential process; it is cut at its    *)
(* awaits (every underlying send attempt is one step).  The server is an   *)
(* arbitrary deterministic function of the request on the wire: the        *)
(* response to a request that was answered before is the earlier answer,   *)
(* the response to a new request is any element of Responses.              *)
(***************************************************************************)
EXTENDS Integers, Sequences, FiniteSets, TLC

\* ------------------------------------------------------------------ bounds
\* largest number of removable elements (query keys, form keys, headers,
\* cookie crumbs, JSON nodes) of an input request
MaxWeight == 2
\* largest number of underlying sends of one run that do not yield a response
MaxFaults == 2
\* largest number of wrapper calls of one run with such a send
MaxFaultyCalls == 1
\* largest weight of a request with a JSON body in the runs checked for
\* termination
MaxLiveJson == 1

\* ------------------------------------------------------- sequence helpers
Last(s) == s[Len(s)]
Front(s) == SubSeq(s, 1, Len(s) - 1)
Range(s) == {s[i] : i \in 1..Len(s)}

RECURSIVE Dedup(_)
Dedup(s) ==
  IF s = <<>> THEN <<>>
  ELSE LET d == Dedup(Front(s))
       IN IF Last(s) \in Range(d) THEN d ELSE Append(d, Last(s))

\* Array.prototype.filter(x => x !== e)
Without(s, e) == SelectSeq(s, LAMBDA x : x # e)

\* ------------------------------------------------------------ header names
\* TLC cannot look inside a string: a name or pattern is spelled out here.
Spelling ==
     ("Host"         :> <<"H","o","s","t">>)
  @@ ("host"         :> <<"h","o","s","t">>)
  @@ ("Cookie"       :> <<"C","o","o","k","i","e">>)
  @@ ("cookie"       :> <<"c","o","o","k","i","e">>)
  @@ ("sec-a"        :> <<"s","e","c","-","a">>)
  @@ ("X-A"          :> <<"X","-","A">>)
  @@ ("x-a"          :> <<"x","-","a">>)
  @@ ("x-sec"        :> <<"x","-","s","e","c","-">>)
  @@ ("Content-Type" :> <<"C","o","n","t","e","n","t","-","T","y","p","e">>)
  @@ ("content-type" :> <<"c","o","n","t","e","n","t","-","t","y","p","e">>)
  @@ ("sec-*"        :> <<"s","e","c","-","*">>)
  @@ ("sec-"         :> <<"s","e","c","-">>)
  @@ ("content-*"    :> <<"c","o","n","t","e","n","t","-","*">>)
  @@ ("SEC-A"        :> <<"S","E","C","-","A">>)
  @@ ("["            :> <<"[">>)

LowerChar(c) ==
  CASE c = "A" -> "a" [] c = "C" -> "c" [] c = "E" -> "e" [] c = "H" -> "h"
    [] c = "S" -> "s" [] c = "T" -> "t" [] c = "X" -> "x"
    [] OTHER -> c

LowerSeq(s) == [i \in 1..Len(s) |-> LowerChar(s[i])]

\* String.prototype.toLowerCase on the spelled strings
toLowerCase(str) ==
  CHOOSE t \in DOMAIN Spelling : Spelling[t] = LowerSeq(Spelling[str])

\* new RegExp(p) throws for an unbalanced bracket
ValidRegex(p) == \A i \in 1..Len(p) : p[i] # "["

\* the regex pattern.replaceAll('*', '.*') with flag i, matched at the start of s
RECURSIVE MatchHere(_, _)
MatchHere(p, s) ==
  IF p = <<>> THEN TRUE
  ELSE IF Head(p) = "*"
       THEN \E i \in 0..Len(s) : MatchHere(Tail(p), SubSeq(s, i + 1, Len(s)))
       ELSE /\ s # <<>>
            /\ LowerChar(Head(s)) = LowerChar(Head(p))
            /\ MatchHere(Tail(p), Tail(s))

\* RegExp.prototype.test: the regex is not anchored
RegexTest(p, s) == \E i \in 0..Len(s) : MatchHere(p, SubSeq(s, i + 1, Len(s)))

shouldRemoveHeader(headerName, patterns) ==
  \E k \in 1..Len(patterns) :
    LET p == Spelling[patterns[k]]
        n == Spelling[headerName]
    IN IF ValidRegex(p) THEN RegexTest(p, n)
                        ELSE LowerSeq(p) = LowerSeq(n)

\* normalizeHeader: lower-cased name; the values of the model carry no
\* surrounding white space, which is all that trim() removes
normalizeHeader(h) == [name |-> toLowerCase(h.name), value |-> h.value]

\* ------------------------------------------------------------------ bodies
\* A JSON value: t is "obj", "arr" or "num"; kids are the entries <<key, value>>
\* in enumeration order (array indices are the keys "0", "1", ...).
Num(n) == [t |-> "num", n |-> n, kids |-> <<>>]
Obj(kids) == [t |-> "obj", n |-> 0, kids |-> kids]
Arr(kids) == [t |-> "arr", n |-> 0, kids |-> kids]
Entry(k, v) == [k |-> k, v |-> v]
NullDoc == Num(0)

IndexOrder == ("0" :> 0) @@ ("1" :> 1) @@ ("2" :> 2) @@ ("3" :> 3)

\* a variant: every value is taken for a container
isComposite_any(v) == TRUE
\* "Array.isArray(v) || isPlainObject(v)"
isComposite(v) == v.t \in {"obj", "arr"}

\* a body: no body, a form-urlencoded string, a JSON text or other bytes; canon
\* says that the bytes are what the re-serialisation of the parsed value gives
\* (URLSearchParams.toString for a form, stableStringify for JSON)
NoBody == [type |-> "none", params |-> <<>>, doc |-> NullDoc, canon |-> TRUE]
FormBody(params, canon) ==
  [type |-> "form", params |-> params, doc |-> NullDoc, canon |-> canon]
JsonBody(doc, canon) ==
  [type |-> "json", params |-> <<>>, doc |-> doc, canon |-> canon]
RawBody == [type |-> "raw", params |-> <<>>, doc |-> NullDoc, canon |-> TRUE]

isJsonString(body) == body.type = "json"

\* new URLSearchParams(body.toString()): a text without '&' and '=' is one key
BodyParams(body) ==
  CASE body.type = "form" -> body.params
    [] body.type = "json" -> <<"{json}">>
    [] body.type = "raw"  -> <<"{raw}">>
    [] OTHER -> <<>>

\* a variant: every occurrence of a key is listed
getSearchParamKeys_all(params) == params
getSearchParamKeys(params) == Dedup(params)

\* Array.prototype.sort of entries by the rank of their keys (stable)
RECURSIVE SortEntries(_, _)
SortEntries(parts, rank) ==
  IF parts = <<>> THEN <<>>
  ELSE LET s == SortEntries(Front(parts), rank)
           e == Last(parts)
           n == Cardinality({i \in 1..Len(s) : rank[s[i].k] <= rank[e.k]})
       IN SubSeq(s, 1, n) \o <<e>> \o SubSeq(s, n + 1, Len(s))

\* the order of Array.prototype.sort() on the key names of the model
KeyOrder == ("a" :> 1) @@ ("b" :> 2) @@ ("c" :> 3) @@ ("d" :> 4)

\* the assemble / buildWith closures: an object takes the parts in insertion
\* order; an array is filled by index and compacted, its indices renumbered
Renumber(parts) ==
  [i \in 1..Len(parts) |-> Entry(CHOOSE s \in DOMAIN IndexOrder : IndexOrder[s] = i - 1, parts[i].v)]

\* a variant: an array is filled by index and left with its gaps
assemble_sparse(kind, parts) ==
  IF kind = "arr" THEN Arr(SortEntries(parts, IndexOrder)) ELSE Obj(parts)
assemble(kind, parts) ==
  IF kind = "arr" THEN Arr(Renumber(SortEntries(parts, IndexOrder)))
  ELSE Obj(parts)

\* stableStringify: object keys sorted at every depth
RECURSIVE stableStringify(_)
stableStringify(v) ==
  IF v.t = "num" THEN v
  ELSE LET ks == IF v.t = "obj" THEN SortEntries(v.kids, KeyOrder) ELSE v.kids
       IN [v EXCEPT !.kids = [i \in 1..Len(ks) |-> Entry(ks[i].k, stableStringify(ks[i].v))]]

RECURSIVE NodeCount(_)
NodeCount(v) ==
  LET RECURSIVE Sum(_)
      Sum(i) == IF i = 0 THEN 0 ELSE NodeCount(v.kids[i].v) + Sum(i - 1)
  IN 1 + Sum(Len(v.kids))


\* --------------------------------------------------------------- responses
\* A response: status code, the content-length and content-type header values
\* ("" when absent), the values of the location header, and the body.  A body is
\* absent (getBody() gives undefined) or a text: its length, what JSON.parse
\* makes of it (an object, an array, a number or boolean, null, or a syntax
\* error), the result of Object.keys on the parsed value, and its bytes.
Body(kind, len, keys, text) ==
  [present |-> TRUE, kind |-> kind, len |-> len, keys |-> keys, text |-> text]
AbsentBody == [present |-> FALSE, kind |-> "none", len |-> 0, keys |-> {}, text |-> ""]

RespA ==
  [code |-> 200, clen |-> "7", ctype |-> "application/json", location |-> <<>>,
   body |-> Body("object", 7, {"ok"}, "ok:1")]
\* same status, headers, length and keys as RespA, another value
RespA2 == [RespA EXCEPT !.body.text = "ok:2"]
RespB ==
  [code |-> 403, clen |-> "3", ctype |-> "text/html", location |-> <<>>,
   body |-> Body("invalid", 3, {}, "no.")]
NoResponse ==
  [code |-> 0, clen |-> "", ctype |-> "", location |-> <<>>, body |-> AbsentBody]

Responses == {RespA, RespA2, RespB}

\* String.prototype.includes('application/json') on the content types of the model
IncludesJson(ct) == ct \in {"application/json", "application/json; charset=utf-8"}

\* a variant: the location rule applies only when both responses have the header
LocationDiffers_both(original, current) ==
  /\ Len(original.location) > 0 /\ Len(current.location) > 0
  /\ original.location[1] # current.location[1]

\* the location rule: one of the responses has the header and the other has
\* not, or their first values differ
LocationDiffers(original, current) ==
  /\ Len(original.location) > 0 \/ Len(current.location) > 0
  /\ \/ Len(original.location) = 0 \/ Len(current.location) = 0
     \/ original.location[1] # current.location[1]

\* "body?.toString().length": undefined (here -1) for an absent body
LengthOf(body) == IF body.present THEN body.len ELSE 0 - 1

\* JSON.parse(text || '{}') followed by Object.keys raises on a text that is no
\* JSON and on the JSON text null; the empty text is read as {}
KeysRaise(body) == body.len > 0 /\ body.kind \in {"invalid", "null"}

\* compareResponses: its result, or that it raises (body.toString() on an
\* absent body, in the try and again in the catch)
compareResult(original, current) ==
  IF original.code # current.code THEN "false"
  ELSE IF original.clen # current.clen THEN "false"
  ELSE IF original.ctype # current.ctype THEN "false"
  ELSE IF LocationDiffers(original, current) THEN "false"
  ELSE IF LengthOf(original.body) # LengthOf(current.body) THEN "false"
  ELSE IF IncludesJson(original.ctype)
       THEN IF ~original.body.present THEN "raises"
            ELSE IF KeysRaise(original.body) \/ KeysRaise(current.body)
            THEN IF original.body.text = current.body.text THEN "true" ELSE "false"
            ELSE IF original.body.keys = current.body.keys THEN "true" ELSE "false"
  ELSE "true"

\* the responses of the model's servers all have a body: no comparison raises
compareResponses(original, current) == compareResult(original, current) = "true"

\* ------------------------------------------------------------------ inputs
Header(name, value) == [name |-> name, value |-> value]

FormType == "application/x-www-form-urlencoded"
JsonType == "application/json"

\* A header value is the array of the texts of its header lines.
\* cookieStr.split(';').map(c => c.trim()).filter(c => c) on one text
split(str) ==
  CASE str = "a=1; b=2" -> <<"a=1", "b=2">>
    [] str = "a=1;b=2"  -> <<"a=1", "b=2">>
    [] str = ""         -> <<>>
    [] OTHER            -> <<str>>

\* Array.prototype.join('; ') on crumbs
join(cookies) ==
  CASE cookies = <<>>             -> ""
    [] cookies = <<"a=1", "b=2">> -> "a=1; b=2"
    [] cookies = <<"b=2", "a=1">> -> "b=2; a=1"
    [] OTHER                      -> cookies[1]

\* raw.join('; ') of the header lines, then split: the crumbs of a Cookie value
Crumbs(raw) ==
  IF raw = <<>> THEN <<>>
  ELSE IF Len(raw) = 1 THEN split(raw[1])
  ELSE split(raw[1]) \o split(raw[2])

CookieValues == {<<"a=1">>, <<"a=1; b=2">>, <<"a=1;b=2">>, <<"a=1", "b=2">>}

Queries ==
  {[keys |-> k, canon |-> TRUE] : k \in {<<>>, <<"a">>, <<"a", "b">>, <<"a", "a">>}}
  \cup {[keys |-> <<"a">>, canon |-> FALSE]}

JsonDocs ==
  { Obj(<<Entry("a", Num(1))>>),
    Obj(<<Entry("b", Num(2)), Entry("a", Num(1))>>),
    Obj(<<Entry("b", Obj(<<Entry("d", Num(3))>>))>>),
    Obj(<<Entry("b", Obj(<<Entry("d", Num(3))>>)), Entry("a", Num(1))>>),
    Arr(<<Entry("0", Num(1)), Entry("1", Num(2))>>),
    Arr(<<Entry("0", Num(1)), Entry("1", Arr(<<Entry("0", Num(2))>>))>>),
    Obj(<<>>) }

\* a body with the content-type header it is sent under (none: <<>>)
TypedBodies ==
  {<<NoBody, <<>>>>, <<RawBody, <<>>>>}
  \cup {<<FormBody(k, TRUE), <<Header("content-type", <<FormType>>)>>>> :
          k \in {<<"x">>, <<"x", "y">>, <<"x", "x">>}}
  \cup {<<JsonBody(d, FALSE), ct>> :
          d \in JsonDocs, ct \in {<<>>, <<Header("content-type", <<JsonType>>)>>}}
  \cup {<<JsonBody(Obj(<<Entry("a", Num(1))>>), c), <<Header("content-type", <<t>>)>>>> :
          c \in BOOLEAN, t \in {JsonType, FormType}}

\* the header map of a request, in insertion order
HeaderMaps ==
  { <<Header("Host", <<"h">>)>> \o ck \o sec \o xa :
      ck \in {<<>>} \cup {<<Header("Cookie", v)>> : v \in CookieValues},
      sec \in {<<>>, <<Header("sec-a", <<"1">>)>>},
      xa \in {<<>>, <<Header("X-A", <<"1">>)>>} }

\* the removable elements of a request: distinct query keys, body parameters,
\* headers (a Cookie header counts by its crumbs), JSON nodes below the root
Weight(query, headers, body) ==
    Cardinality(Range(query.keys))
  + Cardinality({i \in 1..Len(headers) : headers[i].name \notin {"Host", "Cookie"}})
  + (IF \E i \in 1..Len(headers) : headers[i].name = "Cookie"
      THEN Len(Crumbs(headers[CHOOSE i \in 1..Len(headers) : headers[i].name = "Cookie"].value))
      ELSE 0)
  + Cardinality(Range(body.params))
  + (IF body.type = "json" THEN NodeCount(body.doc) - 1 ELSE 0)

Requests ==
  {[found |-> TRUE, query |-> q, headers |-> h \o tb[2], body |-> tb[1]] :
     q \in Queries, h \in HeaderMaps, tb \in TypedBodies}

Inputs ==
  {r \in Requests : Weight(r.query, r.headers, r.body) <= MaxWeight}
  \cup {[found |-> FALSE, query |-> [keys |-> <<>>, canon |-> TRUE],
         headers |-> <<>>, body |-> NoBody]}

\* ----------------------------------------------------------- configuration
DefaultMaxRetries == 2
DefaultMinDelayMs == 100
DefaultTimeoutMs == 30000

AllSteps ==
  [queryParameters |-> TRUE, formBodyParameters |-> TRUE, headers |-> TRUE, jsonBody |-> TRUE]

StepSets ==
  {AllSteps,
   [AllSteps EXCEPT !.queryParameters = FALSE],
   [AllSteps EXCEPT !.formBodyParameters = FALSE],
   [AllSteps EXCEPT !.headers = FALSE],
   [AllSteps EXCEPT !.jsonBody = FALSE]}

\* "missing" names the fields that the configuration object does not have;
\* what the record holds for such a field is not read
DEFAULT_CONFIG ==
  [missing |-> {},
   rateLimit |-> [minDelayMs |-> DefaultMinDelayMs],
   requestConfig |-> [timeoutMs |-> DefaultTimeoutMs, maxRetries |-> DefaultMaxRetries],
   autoRemovedHeaders |-> <<"sec-*">>,
   doNotRemoveHeaders |-> <<>>,
   saveRequests |-> FALSE,
   minimizationSteps |-> AllSteps]

\* the configurations of the model: one that sets every field, and those that
\* differ from it in one field
BaseConfig == [DEFAULT_CONFIG EXCEPT !.requestConfig.maxRetries = 1]

Configs ==
  {BaseConfig, [BaseConfig EXCEPT !.requestConfig.maxRetries = 0]}
  \cup {[BaseConfig EXCEPT !.autoRemovedHeaders = a] : a \in {<<"content-*">>, <<>>}}
  \cup {[BaseConfig EXCEPT !.doNotRemoveHeaders = d] : d \in {<<"SEC-A">>, <<"cookie">>}}
  \cup {[BaseConfig EXCEPT !.minimizationSteps = s] : s \in StepSets}

\* a configuration object that lacks one field
PartialConfigs ==
  {[DEFAULT_CONFIG EXCEPT !.missing = {f}] :
     f \in {"rateLimit", "maxRetries", "autoRemovedHeaders", "doNotRemoveHeaders",
            "minimizationSteps", "headers", "queryParameters"}}

\* ------------------------------------------------------------------- state
VARIABLES
  input,            \* the request behind requestId (reqData), or found = FALSE
  config,           \* the MinimizeConfig of the run
  pc,               \* where minimizeRequest stands
  call,             \* the sendRequestWithTimeout call in progress
  served,           \* the requests the server has answered, with the answers
  faults,           \* the sends without a response so far, and the calls they hit
  originalHeaders,  \* the header map returned by reqData.getHeaders()
  originalResp,     \* the baseline response
  minimalQuery,     \* the committed query parameters
  minimalBody,      \* the committed body
  bodyParams,       \* the committed form parameters
  minimalHeaders,   \* the committed header names
  cookies,          \* the committed cookie crumbs
  todo,             \* the rest of the loop of the current stage
  crumbs,           \* the rest of the per-crumb loop
  jstack,           \* the activations of deltaMinimize, outermost first
  originalBody,     \* the body handed to minimizeJsonBody
  outcome,          \* the result of minimizeRequest
  sessions,         \* calls of sdk.replay.createSession
  console,          \* the sites that logged through sdk.console.error
  run,              \* which call of the registered minimizeRequest handler this is
  hist,             \* what the run did so far: the verdicts of the cookie and JSON trials
  unsettled         \* the sends that lost the race against their timer and have not settled

vars ==
  <<input, config, pc, call, served, faults, originalHeaders, originalResp, minimalQuery,
    minimalBody, bodyParams, minimalHeaders, cookies, todo, crumbs, jstack,
    originalBody, outcome, sessions, console, run, hist, unsettled>>

RequestSpec(query, headers, body) == [path |-> query, headers |-> headers, body |-> body]

EmptySpec == RequestSpec([keys |-> <<>>, canon |-> TRUE], <<>>, NoBody)

\* a call of sendRequestWithTimeout: its caller (tag) and the element under
\* test (subj), the request, whether delay() preceded it, the retry count, the
\* underlying sends made, whether one of them went without a response, and its
\* end: the result (with or without a response) or the error raised
Idle ==
  [status |-> "idle", tag |-> "", subj |-> "", spec |-> EmptySpec, delayed |-> FALSE,
   retryCount |-> 0, attempts |-> 0, waits |-> 0, faulty |-> FALSE,
   hasResp |-> FALSE, resp |-> NoResponse, error |-> "", last |-> ""]

\* the entry into sendRequestWithTimeout(sdk, spec, config), after delay() or not
\* "await delay(config.rateLimit.minDelayMs)" raises a TypeError when the
\* configuration has no rateLimit
NoRateLimit == "rateLimit" \in config.missing

Start(tag, subj, spec, delayed) ==
  IF delayed /\ NoRateLimit
  THEN [Idle EXCEPT !.status = "threw", !.tag = tag, !.subj = subj, !.spec = spec,
                    !.error = "TypeError"]
  ELSE [Idle EXCEPT !.status = "pending", !.tag = tag, !.subj = subj, !.spec = spec,
                    !.delayed = delayed]

\* a variant: the flags are not read
StepOn_ignored(flag) == TRUE
\* "config.minimizationSteps?.flag !== false"
StepOn(flag) ==
  \/ "minimizationSteps" \in config.missing
  \/ flag \in config.missing
  \/ config.minimizationSteps[flag] # FALSE

Finished == Idle

NoOutcome == [type |-> "none", at |-> ""]
Err(at) == [type |-> "error", at |-> at]

\* URLSearchParams.toString()
toString(keys) == [keys |-> keys, canon |-> TRUE]

\* originalHeaders[h]
ValueOf(headers, h) ==
  headers[CHOOSE i \in 1..Len(headers) : headers[i].name = h].value
Has(headers, h) == \E i \in 1..Len(headers) : headers[i].name = h
Names(headers) == [i \in 1..Len(headers) |-> headers[i].name]

\* the loop "for h of names: setHeader(normalizeHeader(h, originalHeaders[h]))"
HeadersOf(names, headers) ==
  [i \in 1..Len(names) |-> normalizeHeader(Header(names[i], ValueOf(headers, names[i])))]

NotHost(names) == SelectSeq(names, LAMBDA h : toLowerCase(h) # "host")
NotCookie(names) == SelectSeq(names, LAMBDA h : toLowerCase(h) # "cookie")

\* What the server sees.  setHost() carries the host, so an explicit Host header
\* adds nothing; header names are case-insensitive on the wire.
Wire(spec) ==
  [spec EXCEPT !.headers =
     SelectSeq([i \in 1..Len(spec.headers) |->
                  Header(toLowerCase(spec.headers[i].name), spec.headers[i].value)],
               LAMBDA h : h.name # "host")]

\* a deterministic server: the answer to a request seen before is the same
ServerResponses(spec) ==
  LET known == {e \in served : e.req = Wire(spec)}
  IN IF known # {} THEN {e.resp : e \in known} ELSE Responses

\* nothing done yet
NoHist ==
  [keys |-> <<>>, cookie |-> <<>>, json |-> <<>>, compared |-> "",
   last |-> [any |-> FALSE, spec |-> EmptySpec]]

Init ==
  /\ input \in Inputs
  /\ config \in Configs
  /\ pc = "lookup"
  /\ call = Idle
  /\ served = {}
  /\ faults = [sends |-> 0, calls |-> 0]
  /\ originalHeaders = <<>>
  /\ originalResp = NoResponse
  /\ minimalQuery = <<>>
  /\ minimalBody = NoBody
  /\ bodyParams = <<>>
  /\ minimalHeaders = <<>>
  /\ cookies = <<>>
  /\ todo = <<>>
  /\ crumbs = <<>>
  /\ jstack = <<>>
  /\ originalBody = NoBody
  /\ outcome = NoOutcome
  /\ sessions = 0
  /\ console = {}
  /\ run = 1
  /\ unsettled = 0
  /\ hist = NoHist

\* -------------------------------------------------- the transport wrapper
\* One underlying sdk.requests.send raced against the timeout: it settles with
\* a result (with or without a response), raises, or the timer fires first.
\* A failure is retried after delay(minDelayMs) while retryCount < maxRetries.
\* a variant: retrying while retryCount <= maxRetries
Retry_inclusive ==
  /\ "maxRetries" \notin config.missing
  /\ call.retryCount <= config.requestConfig.maxRetries

\* "if (retryCount < config.requestConfig.maxRetries)": false for a missing
\* maxRetries (a comparison with undefined)
Retry ==
  /\ "maxRetries" \notin config.missing
  /\ call.retryCount < config.requestConfig.maxRetries

\* a variant: a result without a response is taken for a failure
Settled_withResponse(out) == out = "resp"
\* "const result = await Promise.race([requestPromise, timeoutPromise]);
\*  return result": whatever the send resolves with is returned
Settled(out) == out \in {"resp", "noresp"}

sendRequestWithTimeout ==
  /\ call.status = "pending"
  /\ \E out \in {"resp", "noresp", "raise", "timeout"} :
       /\ out # "resp" => /\ faults.sends < MaxFaults
                          /\ call.faulty \/ faults.calls < MaxFaultyCalls
       /\ \E r \in (IF out = "resp" THEN ServerResponses(call.spec) ELSE {NoResponse}) :
            /\ served' = IF out = "resp"
                         THEN served \cup {[req |-> Wire(call.spec), resp |-> r]}
                         ELSE served
            /\ faults' = IF out = "resp" THEN faults
                         ELSE [sends |-> faults.sends + 1,
                               calls |-> faults.calls + (IF call.faulty THEN 0 ELSE 1)]
            /\ LET sent == [call EXCEPT !.attempts = @ + 1, !.last = out,
                                        !.faulty = @ \/ out # "resp"]
               IN call' =
                    IF Settled(out)
                    THEN [sent EXCEPT !.status = "returned", !.hasResp = (out = "resp"),
                                      !.resp = r]
                    ELSE IF Retry
                         THEN IF NoRateLimit
                              THEN [sent EXCEPT !.status = "threw", !.error = "TypeError"]
                              ELSE [sent EXCEPT !.retryCount = @ + 1, !.waits = @ + 1]
                         ELSE [sent EXCEPT !.status = "threw", !.error = out]
       \* the timer only rejects the race: the send itself goes on
       /\ unsettled' = IF out = "timeout" THEN unsettled + 1 ELSE unsettled
  /\ UNCHANGED <<run, hist, input, config, pc, originalHeaders, originalResp, minimalQuery,
                 minimalBody, bodyParams, minimalHeaders, cookies, todo, crumbs,
                 jstack, originalBody, outcome, sessions, console>>

\* a variant: the response of the trial is compared with itself
Accepted_self == call.status = "returned" /\ call.hasResp /\ compareResponses(call.resp, call.resp)
\* "trialResult.response && await compareResponses(originalResp, trialResult.response)"
Accepted == call.status = "returned" /\ call.hasResp /\ compareResponses(originalResp, call.resp)

\* the request of the trial accepted last, noted when a trial is resolved
LastAccepted ==
  IF Accepted THEN [hist EXCEPT !.last = [any |-> TRUE, spec |-> call.spec]] ELSE hist

\* the catch of minimizeRequest: an error raised anywhere ends the run with err
\* a variant: the catch records the error and the run goes on
Catch_resuming(at) ==
  /\ pc' = pc
  /\ outcome' = Err(at)
  /\ call' = Finished
  /\ console' = console \cup {"minimization"}

Catch(at) ==
  /\ pc' = "done"
  /\ outcome' = Err(at)
  /\ call' = Finished
  /\ console' = console \cup {"minimization"}

\* ------------------------------------------- minimizeRequest: the baseline
get ==
  /\ pc = "lookup"
  /\ IF ~input.found
     THEN /\ pc' = "done"
          /\ outcome' = Err("lookup")
          /\ UNCHANGED <<call, originalHeaders, console>>
     ELSE /\ originalHeaders' = input.headers
          /\ call' = Start("baseline", "",
                       RequestSpec(input.query,
                                   HeadersOf(Names(input.headers), input.headers),
                                   input.body),
                       FALSE)
          /\ pc' = "baseline"
          /\ UNCHANGED <<outcome, console>>
  /\ UNCHANGED <<unsettled, run, hist, input, config, served, faults, originalResp, minimalQuery, minimalBody, bodyParams,
                 minimalHeaders, cookies, todo, crumbs, jstack, originalBody, sessions>>

\* a variant: without the check of the baseline response
NoBaseline_thrown == call.status = "threw"

\* the baseline send raised, or "if (!originalResult.response)"
NoBaseline == call.status = "threw" \/ ~call.hasResp

baseline ==
  /\ pc = "baseline"
  /\ call.status \in {"returned", "threw"}
  /\ IF NoBaseline
     THEN /\ Catch("baseline")
          /\ UNCHANGED <<originalResp, minimalQuery, todo>>
     ELSE /\ originalResp' = call.resp
          /\ minimalQuery' = input.query.keys
          /\ todo' = IF StepOn("queryParameters")
                     THEN getSearchParamKeys(input.query.keys) ELSE <<>>
          /\ pc' = "query"
          /\ call' = Finished
          /\ UNCHANGED <<outcome, console>>
  /\ UNCHANGED <<unsettled, run, hist, input, config, served, faults, originalHeaders, minimalBody, bodyParams,
                 minimalHeaders, cookies, crumbs, jstack, originalBody, sessions>>


\* ---------------------------------------- 1. minimize query parameters
queryTrial ==
  /\ pc = "query" /\ call.status = "idle" /\ todo # <<>>
  /\ LET key == Head(todo)
         trialQuery == Without(minimalQuery, key)
     IN call' = Start("query", key,
                  RequestSpec(toString(trialQuery),
                              HeadersOf(NotHost(Names(originalHeaders)), originalHeaders),
                              input.body),
                  TRUE)
  /\ UNCHANGED <<unsettled, run, hist, input, config, pc, served, faults, originalHeaders, originalResp, minimalQuery,
                 minimalBody, bodyParams, minimalHeaders, cookies, todo, crumbs, jstack,
                 originalBody, outcome, sessions, console>>

\* the verdict of a query or form trial, noted: the key under test, the keys
\* the trial carried, and whether the removal was committed
KeyVerdict(sent) ==
  [LastAccepted EXCEPT !.keys = Append(@, [stage |-> call.tag, key |-> call.subj,
                                   sent |-> sent, accepted |-> Accepted])]

queryResolve ==
  /\ pc = "query" /\ call.status \in {"returned", "threw"}
  /\ IF call.status = "threw"
     THEN Catch("query") /\ UNCHANGED <<minimalQuery, todo, hist>>
     ELSE /\ minimalQuery' = IF Accepted THEN call.spec.path.keys ELSE minimalQuery
          /\ hist' = KeyVerdict(call.spec.path.keys)
          /\ todo' = Tail(todo)
          /\ call' = Finished
          /\ UNCHANGED <<pc, outcome, console>>
  /\ UNCHANGED <<unsettled, run, input, config, served, faults, originalHeaders, originalResp, minimalBody,
                 bodyParams, minimalHeaders, cookies, crumbs, jstack, originalBody,
                 sessions>>

\* a variant: the content type is not looked at
IsFormType_any(headers) == TRUE
\* "originalHeaders['content-type'] || ''" includes the form content type
IsFormType(headers) ==
  Has(headers, "content-type") /\ ValueOf(headers, "content-type") = <<FormType>>

queryDone ==
  /\ pc = "query" /\ call.status = "idle" /\ todo = <<>>
  /\ pc' = "form"
  /\ minimalBody' = input.body
  /\ LET on == /\ StepOn("formBodyParameters")
               /\ IsFormType(originalHeaders)
               /\ input.body.type # "none"
     IN /\ bodyParams' = IF on THEN BodyParams(input.body) ELSE <<>>
        /\ todo' = IF on THEN getSearchParamKeys(BodyParams(input.body)) ELSE <<>>
  /\ UNCHANGED <<unsettled, run, hist, input, config, call, served, faults, originalHeaders, originalResp, minimalQuery,
                 minimalHeaders, cookies, crumbs, jstack, originalBody, outcome, sessions, console>>

\* ------------------------------------ 2. minimize form body parameters
formTrial ==
  /\ pc = "form" /\ call.status = "idle" /\ todo # <<>>
  /\ LET key == Head(todo)
         trialBody == Without(bodyParams, key)
     IN call' = Start("form", key,
                  RequestSpec(toString(minimalQuery),
                              HeadersOf(NotHost(Names(originalHeaders)), originalHeaders),
                              FormBody(trialBody, TRUE)),
                  TRUE)
  /\ UNCHANGED <<unsettled, run, hist, input, config, pc, served, faults, originalHeaders, originalResp, minimalQuery,
                 minimalBody, bodyParams, minimalHeaders, cookies, todo, crumbs, jstack,
                 originalBody, outcome, sessions, console>>

formResolve ==
  /\ pc = "form" /\ call.status \in {"returned", "threw"}
  /\ IF call.status = "threw"
     THEN Catch("form") /\ UNCHANGED <<bodyParams, minimalBody, todo, hist>>
     ELSE /\ bodyParams' = IF Accepted THEN call.spec.body.params ELSE bodyParams
          /\ hist' = KeyVerdict(call.spec.body.params)
          /\ minimalBody' = IF Accepted THEN call.spec.body ELSE minimalBody
          /\ todo' = Tail(todo)
          /\ call' = Finished
          /\ UNCHANGED <<pc, outcome, console>>
  /\ UNCHANGED <<unsettled, run, input, config, served, faults, originalHeaders, originalResp, minimalQuery,
                 minimalHeaders, cookies, crumbs, jstack, originalBody, sessions>>

formDone ==
  /\ pc = "form" /\ call.status = "idle" /\ todo = <<>>
  /\ pc' = "headers"
  /\ minimalHeaders' = NotHost(Names(originalHeaders))
  /\ todo' = IF StepOn("headers")
             THEN NotHost(Names(originalHeaders)) ELSE <<>>
  /\ UNCHANGED <<unsettled, run, hist, input, config, call, served, faults, originalHeaders, originalResp, minimalQuery,
                 minimalBody, bodyParams, cookies, crumbs, jstack, originalBody, outcome,
                 sessions, console>>

\* ------------------------------------------------- 3. minimize headers
\* a variant: the auto-removed patterns take precedence
DoNotRemove_afterAuto(h) ==
  /\ shouldRemoveHeader(h, config.doNotRemoveHeaders)
  /\ ~shouldRemoveHeader(h, config.autoRemovedHeaders)

\* "config?.doNotRemoveHeaders ?? DEFAULT_CONFIG.doNotRemoveHeaders"
DoNotRemove(h) ==
  shouldRemoveHeader(h, IF "doNotRemoveHeaders" \in config.missing
                        THEN DEFAULT_CONFIG.doNotRemoveHeaders
                        ELSE config.doNotRemoveHeaders)
\* "config?.autoRemovedHeaders ?? DEFAULT_CONFIG.autoRemovedHeaders"
AutoRemoved(h) ==
  shouldRemoveHeader(h, IF "autoRemovedHeaders" \in config.missing
                        THEN DEFAULT_CONFIG.autoRemovedHeaders
                        ELSE config.autoRemovedHeaders)

\* the request of a header-stage trial: committed query and body, the given headers
HeaderSpec(headers) == RequestSpec(toString(minimalQuery), headers, minimalBody)

headerSkip ==
  /\ pc = "headers" /\ call.status = "idle" /\ todo # <<>>
  /\ DoNotRemove(Head(todo))
  /\ todo' = Tail(todo)
  /\ UNCHANGED <<unsettled, run, hist, input, config, pc, call, served, faults, originalHeaders, originalResp,
                 minimalQuery, minimalBody, bodyParams, minimalHeaders, cookies, crumbs,
                 jstack, originalBody, outcome, sessions, console>>

headerAutoRemove ==
  /\ pc = "headers" /\ call.status = "idle" /\ todo # <<>>
  /\ ~DoNotRemove(Head(todo)) /\ AutoRemoved(Head(todo))
  /\ minimalHeaders' = Without(minimalHeaders, Head(todo))
  /\ todo' = Tail(todo)
  /\ UNCHANGED <<unsettled, run, hist, input, config, pc, call, served, faults, originalHeaders, originalResp,
                 minimalQuery, minimalBody, bodyParams, cookies, crumbs, jstack,
                 originalBody, outcome, sessions, console>>

\* the Cookie header: first a trial without the whole header (sent without delay)
cookieAllTrial ==
  /\ pc = "headers" /\ call.status = "idle" /\ todo # <<>>
  /\ ~DoNotRemove(Head(todo)) /\ ~AutoRemoved(Head(todo))
  /\ toLowerCase(Head(todo)) = "cookie"
  /\ cookies' = Crumbs(ValueOf(originalHeaders, Head(todo)))
  /\ call' = Start("cookieAll", Head(todo),
               HeaderSpec(HeadersOf(NotCookie(minimalHeaders), originalHeaders)), FALSE)
  /\ pc' = "cookieAll"
  /\ UNCHANGED <<unsettled, run, hist, input, config, served, faults, originalHeaders, originalResp, minimalQuery,
                 minimalBody, bodyParams, minimalHeaders, todo, crumbs, jstack,
                 originalBody, outcome, sessions, console>>

\* the Cookie header lines a request carries
CookieOf(spec) ==
  IF \E i \in 1..Len(spec.headers) : toLowerCase(spec.headers[i].name) = "cookie"
  THEN spec.headers[CHOOSE i \in 1..Len(spec.headers) :
                      toLowerCase(spec.headers[i].name) = "cookie"].value
  ELSE <<>>

\* the verdict of a cookie trial: the crumb under test ("*": the whole header),
\* the Cookie header lines the trial request carried, whether the trial got a
\* response and whether compareResponses accepted it
Verdict(subj) ==
  [LastAccepted EXCEPT !.cookie = Append(@, [crumb |-> subj, sent |-> CookieOf(call.spec),
                                             answered |-> call.hasResp,
                                             accepted |-> Accepted])]

cookieAllResolve ==
  /\ pc = "cookieAll" /\ call.status \in {"returned", "threw"}
  /\ IF call.status = "threw"
     THEN Catch("cookieAll") /\ UNCHANGED <<minimalHeaders, todo, crumbs, hist>>
     ELSE /\ call' = Finished
          /\ hist' = Verdict("*")
          /\ UNCHANGED <<outcome, console>>
          /\ IF Accepted
             THEN /\ minimalHeaders' = Without(minimalHeaders, Head(todo))
                  /\ todo' = Tail(todo)
                  /\ pc' = "headers"
                  /\ UNCHANGED crumbs
             ELSE /\ crumbs' = cookies
                  /\ pc' = "crumbs"
                  /\ UNCHANGED <<minimalHeaders, todo>>
  /\ UNCHANGED <<unsettled, run, input, config, served, faults, originalHeaders, originalResp, minimalQuery,
                 minimalBody, bodyParams, cookies, jstack, originalBody, sessions>>

\* a variant: the Cookie header is sent with an empty value when no crumb remains
CrumbHeaders_empty(remaining) ==
  [i \in 1..Len(minimalHeaders) |->
     IF toLowerCase(minimalHeaders[i]) = "cookie"
     THEN Header(minimalHeaders[i], <<join(remaining)>>)
     ELSE normalizeHeader(Header(minimalHeaders[i], ValueOf(originalHeaders, minimalHeaders[i])))]
\* the headers of a per-crumb trial: the Cookie header is set under its own name
\* to the remaining crumbs, or left out when none remain
CrumbHeaders(remaining) ==
  LET kept == SelectSeq(minimalHeaders,
                        LAMBDA h : toLowerCase(h) # "cookie" \/ remaining # <<>>)
  IN [i \in 1..Len(kept) |->
        IF toLowerCase(kept[i]) = "cookie" THEN Header(kept[i], <<join(remaining)>>)
        ELSE normalizeHeader(Header(kept[i], ValueOf(originalHeaders, kept[i])))]

crumbTrial ==
  /\ pc = "crumbs" /\ call.status = "idle" /\ crumbs # <<>>
  /\ LET cookie == Head(crumbs)
         remaining == Without(cookies, cookie)
     IN call' = Start("crumb", cookie, HeaderSpec(CrumbHeaders(remaining)), TRUE)
  /\ UNCHANGED <<unsettled, run, hist, input, config, pc, served, faults, originalHeaders, originalResp, minimalQuery,
                 minimalBody, bodyParams, minimalHeaders, cookies, todo, crumbs, jstack,
                 originalBody, outcome, sessions, console>>

\* a variant: the commit of a crumb removal does not write the header back
SetValue_forgotten(headers, h, v) == headers

\* originalHeaders[headerKey] = [remaining.join('; ')]
SetValue(headers, h, v) ==
  [i \in 1..Len(headers) |-> IF headers[i].name = h THEN Header(h, v) ELSE headers[i]]

crumbResolve ==
  /\ pc = "crumbs" /\ call.status \in {"returned", "threw"}
  /\ IF call.status = "threw"
     THEN Catch("crumb") /\ UNCHANGED <<cookies, originalHeaders, minimalHeaders, crumbs, hist>>
     ELSE /\ call' = Finished
          /\ hist' = Verdict(Head(crumbs))
          /\ crumbs' = Tail(crumbs)
          /\ UNCHANGED <<pc, outcome, console>>
          /\ LET remaining == Without(cookies, Head(crumbs))
             IN IF Accepted
                THEN /\ cookies' = remaining
                     /\ IF remaining # <<>>
                        THEN /\ originalHeaders' = SetValue(originalHeaders, Head(todo), <<join(remaining)>>)
                             /\ UNCHANGED minimalHeaders
                        ELSE /\ minimalHeaders' = Without(minimalHeaders, Head(todo))
                             /\ UNCHANGED originalHeaders
                ELSE UNCHANGED <<cookies, originalHeaders, minimalHeaders>>
  /\ UNCHANGED <<unsettled, run, input, config, served, faults, originalResp, minimalQuery, minimalBody, bodyParams,
                 todo, jstack, originalBody, sessions>>

crumbsDone ==
  /\ pc = "crumbs" /\ call.status = "idle" /\ crumbs = <<>>
  /\ pc' = "headers"
  /\ todo' = Tail(todo)
  /\ UNCHANGED <<unsettled, run, hist, input, config, call, served, faults, originalHeaders, originalResp, minimalQuery,
                 minimalBody, bodyParams, minimalHeaders, cookies, crumbs, jstack,
                 originalBody, outcome, sessions, console>>

\* generic header removal
headerTrial ==
  /\ pc = "headers" /\ call.status = "idle" /\ todo # <<>>
  /\ ~DoNotRemove(Head(todo)) /\ ~AutoRemoved(Head(todo))
  /\ toLowerCase(Head(todo)) # "cookie"
  /\ call' = Start("header", Head(todo),
               HeaderSpec(HeadersOf(Without(minimalHeaders, Head(todo)), originalHeaders)),
               TRUE)
  /\ pc' = "header"
  /\ UNCHANGED <<unsettled, run, hist, input, config, served, faults, originalHeaders, originalResp, minimalQuery,
                 minimalBody, bodyParams, minimalHeaders, cookies, todo, crumbs, jstack,
                 originalBody, outcome, sessions, console>>

headerResolve ==
  /\ pc = "header" /\ call.status \in {"returned", "threw"}
  /\ IF call.status = "threw"
     THEN Catch("header") /\ UNCHANGED <<minimalHeaders, todo, hist>>
     ELSE /\ minimalHeaders' = IF Accepted THEN Without(minimalHeaders, Head(todo))
                               ELSE minimalHeaders
          /\ hist' = LastAccepted
          /\ todo' = Tail(todo)
          /\ pc' = "headers"
          /\ call' = Finished
          /\ UNCHANGED <<outcome, console>>
  /\ UNCHANGED <<unsettled, run, input, config, served, faults, originalHeaders, originalResp, minimalQuery,
                 minimalBody, bodyParams, cookies, crumbs, jstack, originalBody, sessions>>

\* a variant: the query stage runs again after the header stage
headersDone_again ==
  /\ pc = "headers" /\ call.status = "idle" /\ todo = <<>>
  /\ pc' = "query"
  /\ todo' = getSearchParamKeys(minimalQuery)
  /\ UNCHANGED <<unsettled, run, hist, input, config, call, served, faults, originalHeaders,
                 originalResp, minimalQuery, minimalBody, bodyParams, minimalHeaders,
                 cookies, crumbs, jstack, originalBody, outcome, sessions, console>>

headersDone ==
  /\ pc = "headers" /\ call.status = "idle" /\ todo = <<>>
  /\ pc' = "json"
  /\ UNCHANGED <<unsettled, run, hist, input, config, call, served, faults, originalHeaders, originalResp, minimalQuery,
                 minimalBody, bodyParams, minimalHeaders, cookies, todo, crumbs, jstack,
                 originalBody, outcome, sessions, console>>


\* ----------------------------------------------- 4. minimize JSON body
\* a variant: the last child is put on the work list twice
Frame_twice(v) ==
  [kind |-> v.t, work |-> v.kids \o (IF v.kids = <<>> THEN <<>> ELSE <<Last(v.kids)>>),
   survivors |-> <<>>, recursed |-> <<>>, cur |-> Entry("", NullDoc)]
\* One activation of deltaMinimize: the kind of container assembleParent
\* builds, the work list, the survivors, the recursed children, and cur: the
\* child under test (phase 1) or the child being reduced (phase 2).
Frame(v) ==
  [kind |-> v.t, work |-> v.kids, survivors |-> <<>>, recursed |-> <<>>,
   cur |-> Entry("", NullDoc)]

SetTop(stk, f) == [stk EXCEPT ![Len(stk)] = f]

\* deltaMinimize between two checks: phase 2 pops the survivors (last first),
\* enters the composite ones, copies the others, and returns
\* assembleParent(recursed) to the activation below.  The result is the stack
\* at the next check, or the minimized document.
RECURSIVE deltaMinimize(_)
deltaMinimize(stk) ==
  LET top == Last(stk) IN
  IF top.work # <<>> THEN [done |-> FALSE, stk |-> stk, doc |-> NullDoc]
  ELSE IF top.survivors # <<>>
  THEN LET e == Last(top.survivors)
           rest == Front(top.survivors)
       IN IF isComposite(e.v)
          THEN deltaMinimize(Append(SetTop(stk, [top EXCEPT !.survivors = rest, !.cur = e]),
                                    Frame(e.v)))
          ELSE deltaMinimize(SetTop(stk, [top EXCEPT !.survivors = rest,
                                                     !.recursed = Append(@, e)]))
  ELSE LET result == assemble(top.kind, top.recursed)
       IN IF Len(stk) = 1 THEN [done |-> TRUE, stk |-> <<>>, doc |-> result]
          ELSE LET par == stk[Len(stk) - 1]
               IN deltaMinimize(SetTop(Front(stk),
                    [par EXCEPT !.recursed = Append(@, Entry(par.cur.k, result))]))

\* a variant: the candidate of a nested check carries the child alone
RECURSIVE nestedCheck_alone(_, _, _)
nestedCheck_alone(stk, i, candidate) ==
  IF i = 1 THEN candidate
  ELSE LET par == stk[i - 1]
       IN nestedCheck_alone(stk, i - 1, assemble(par.kind, <<Entry(par.cur.k, candidate)>>))

\* nestedCheck, up to the outer check: the whole document in which the
\* container of activation i is replaced by candidate
RECURSIVE nestedCheck(_, _, _)
nestedCheck(stk, i, candidate) ==
  IF i = 1 THEN candidate
  ELSE LET par == stk[i - 1]
           merged == (par.recursed \o par.survivors) \o <<Entry(par.cur.k, candidate)>>
       IN nestedCheck(stk, i - 1, assemble(par.kind, merged))

\* checkJsonCandidate: committed query and headers, content-type added when no
\* committed header is one, the candidate serialized by stableStringify
InjectContentType(headers) ==
  IF \E i \in 1..Len(headers) : headers[i].name = "content-type" THEN headers
  ELSE Append(headers, Header("content-type", <<JsonType>>))

checkJsonCandidate(candidateObj) ==
  RequestSpec(toString(minimalQuery),
              InjectContentType(HeadersOf(minimalHeaders, originalHeaders)),
              JsonBody(stableStringify(candidateObj), TRUE))

\* a variant: an empty container is reduced like any other
emptyRoot_reduced(root) == FALSE
\* "root === null || (Array.isArray(root) && root.length === 0) ||
\*  (isPlainObject(root) && Object.keys(root).length === 0)"; null is a leaf
\* value here, and a leaf takes the branch of the primitives
emptyRoot(root) == root.kids = <<>>

\* the call of minimizeJsonBody up to the first check, or to its return when
\* there is no check to make
minimizeJsonBody ==
  /\ pc = "json" /\ call.status = "idle" /\ jstack = <<>>
  /\ originalBody' = minimalBody
  /\ IF /\ StepOn("jsonBody")
        /\ input.body.type # "none"
        /\ isJsonString(input.body)
        /\ isJsonString(minimalBody)
        /\ ~emptyRoot(minimalBody.doc)
        /\ isComposite(minimalBody.doc)
     THEN LET next == deltaMinimize(<<Frame(minimalBody.doc)>>)
          IN IF next.done
             THEN /\ minimalBody' = JsonBody(stableStringify(next.doc), TRUE)
                  /\ pc' = "final"
                  /\ UNCHANGED jstack
             ELSE /\ jstack' = next.stk
                  /\ UNCHANGED <<pc, minimalBody>>
     ELSE pc' = "final" /\ UNCHANGED <<jstack, minimalBody>>
  /\ UNCHANGED <<unsettled, run, hist, input, config, call, served, faults, originalHeaders, originalResp, minimalQuery,
                 bodyParams, minimalHeaders, cookies, todo, crumbs, outcome,
                 sessions, console>>

\* a variant: the work list is taken from its front
pop_first(work) == [cur |-> Head(work), rest |-> Tail(work)]
\* "const cur = work.pop()!"
pop(work) == [cur |-> Last(work), rest |-> Front(work)]

jsonTrial ==
  /\ pc = "json" /\ call.status = "idle" /\ jstack # <<>>
  /\ LET top == Last(jstack)
         cur == pop(top.work).cur
         work == pop(top.work).rest
         stk == SetTop(jstack, [top EXCEPT !.work = work, !.cur = cur])
         trial == assemble(top.kind, work \o top.survivors)
     IN /\ jstack' = stk
        /\ call' = Start("json", cur.k,
                     checkJsonCandidate(nestedCheck(stk, Len(stk), trial)), TRUE)
  /\ UNCHANGED <<unsettled, run, hist, input, config, pc, served, faults, originalHeaders, originalResp, minimalQuery,
                 minimalBody, bodyParams, minimalHeaders, cookies, todo, crumbs,
                 originalBody, outcome, sessions, console>>

\* a variant: the catch returns the candidate under test
onJsonError_candidate == call.spec.body

\* the catch of minimizeJsonBody: "return originalBody"
onJsonError == originalBody

\* the verdict of a JSON trial, noted: the document sent, the container under
\* reduction (by the keys that lead to it from the root), the child under
\* test and the trial container built without it
JsonVerdict ==
  LET top == Last(jstack)
  IN [doc |-> call.spec.body.doc,
      path |-> [i \in 1..(Len(jstack) - 1) |-> jstack[i].cur.k],
      key |-> top.cur.k,
      part |-> assemble(top.kind, top.work \o top.survivors),
      accepted |-> Accepted]

jsonResolve ==
  /\ pc = "json" /\ call.status \in {"returned", "threw"}
  /\ call' = Finished
  /\ IF call.status = "threw"
     THEN \* the catch of minimizeJsonBody
          /\ minimalBody' = onJsonError
          /\ jstack' = <<>>
          /\ pc' = "final"
          /\ console' = console \cup {"json"}
          /\ UNCHANGED hist
     ELSE LET top == Last(jstack)
              kept == IF Accepted THEN top
                      ELSE [top EXCEPT !.survivors = Append(@, top.cur)]
              next == deltaMinimize(SetTop(jstack, kept))
          IN /\ jstack' = next.stk
             /\ UNCHANGED console
             /\ hist' = [LastAccepted EXCEPT !.json = Append(@, JsonVerdict)]
             /\ IF next.done
                THEN /\ minimalBody' = JsonBody(stableStringify(next.doc), TRUE)
                     /\ pc' = "final"
                ELSE UNCHANGED <<minimalBody, pc>>
  /\ UNCHANGED <<unsettled, run, input, config, served, faults, originalHeaders, originalResp, minimalQuery,
                 bodyParams, minimalHeaders, cookies, todo, crumbs, originalBody, outcome,
                 sessions>>

\* ---------------------------- 5. build the final request, send, session
\* a variant: the final request built like a JSON trial
finalSpec_injecting ==
  RequestSpec(toString(minimalQuery),
              InjectContentType(HeadersOf(minimalHeaders, originalHeaders)), minimalBody)

finalSpec ==
  RequestSpec(toString(minimalQuery), HeadersOf(minimalHeaders, originalHeaders), minimalBody)

finalSend ==
  /\ pc = "final" /\ call.status = "idle"
  /\ call' = Start("final", "", finalSpec, TRUE)
  /\ UNCHANGED <<unsettled, run, hist, input, config, pc, served, faults, originalHeaders, originalResp, minimalQuery,
                 minimalBody, bodyParams, minimalHeaders, cookies, todo, crumbs, jstack,
                 originalBody, outcome, sessions, console>>

\* a variant: a session whatever the final send returned
SessionDue_always == TRUE
\* "if (finalResult.response)"
SessionDue == call.hasResp

finalResolve ==
  /\ pc = "final" /\ call.status \in {"returned", "threw"}
  /\ IF call.status = "threw"
     THEN Catch("final")
     ELSE /\ call' = Finished
          /\ IF SessionDue
             THEN pc' = "session" /\ UNCHANGED <<outcome, console>>
             ELSE pc' = "done" /\ outcome' = [type |-> "warning", at |-> ""]
                  /\ UNCHANGED console
  /\ UNCHANGED <<unsettled, run, hist, input, config, served, faults, originalHeaders, originalResp, minimalQuery,
                 minimalBody, bodyParams, minimalHeaders, cookies, todo, crumbs, jstack,
                 originalBody, sessions>>

\* sdk.replay.createSession(finalSpec) returns a session, returns none (then
\* session.getId() raises inside the try), or raises
SessionOutcome(result) ==
  IF result = "session" THEN [type |-> "success", at |-> ""] ELSE Err("session")

createSession ==
  /\ pc = "session"
  /\ sessions' = sessions + 1
  /\ \E result \in {"session", "none", "raise"} :
       /\ outcome' = SessionOutcome(result)
       /\ console' = IF result = "session" THEN console ELSE console \cup {"session"}
  /\ pc' = "done"
  /\ UNCHANGED <<unsettled, run, hist, input, config, call, served, faults, originalHeaders, originalResp, minimalQuery,
                 minimalBody, bodyParams, minimalHeaders, cookies, todo, crumbs, jstack,
                 originalBody>>

\* the promise of a send that lost the race settles; nobody awaits it
sendSettles ==
  /\ unsettled > 0
  /\ unsettled' = unsettled - 1
  /\ UNCHANGED <<run, hist, input, config, pc, call, served, faults, originalHeaders,
                 originalResp, minimalQuery, minimalBody, bodyParams, minimalHeaders,
                 cookies, todo, crumbs, jstack, originalBody, outcome, sessions, console>>

minimizeRequest ==
  \/ get \/ baseline
  \/ queryTrial \/ queryResolve \/ queryDone
  \/ formTrial \/ formResolve \/ formDone
  \/ headerSkip \/ headerAutoRemove
  \/ cookieAllTrial \/ cookieAllResolve \/ crumbTrial \/ crumbResolve \/ crumbsDone
  \/ headerTrial \/ headerResolve \/ headersDone
  \/ minimizeJsonBody \/ jsonTrial \/ jsonResolve
  \/ finalSend \/ finalResolve \/ createSession

Next == sendRequestWithTimeout \/ sendSettles \/ minimizeRequest

Spec == Init /\ [][Next]_vars

\* The runs under the base configuration, on the requests without a JSON body
\* and on those with a JSON body of weight MaxLiveJson at most.  Every send
\* settles or its timer fires (setTimeout always fires, so the race of
\* sendRequestWithTimeout always settles), the calls of the SDK settle, and the
\* event loop runs the continuation of a settled await.  Nothing is assumed of
\* a send that lost its race.
InitLive ==
  /\ Init
  /\ config = BaseConfig
  /\ isJsonString(input.body)
       => Weight(input.query, input.headers, input.body) <= MaxLiveJson

NextLive ==
  \/ sendRequestWithTimeout \/ sendSettles
  \/ get \/ baseline
  \/ queryTrial \/ queryResolve \/ queryDone
  \/ formTrial \/ formResolve \/ formDone
  \/ headerAutoRemove
  \/ cookieAllTrial \/ cookieAllResolve \/ crumbTrial \/ crumbResolve \/ crumbsDone
  \/ headerTrial \/ headerResolve \/ headersDone
  \/ minimizeJsonBody \/ jsonTrial \/ jsonResolve
  \/ finalSend \/ finalResolve \/ createSession

FairSpec ==
  /\ InitLive /\ [][NextLive]_vars
  /\ WF_vars(sendRequestWithTimeout) /\ WF_vars(minimizeRequest)

\* ------------------------------------------- a second call of the handler
\* The request a successful run produced is what its replay session holds; the
\* handler is called again on it, against the same server, with the same
\* configuration.  The Host header is carried by setHost.
Produced ==
  [found |-> TRUE,
   query |-> finalSpec.path,
   headers |-> SelectSeq(input.headers, LAMBDA h : toLowerCase(h.name) = "host")
                 \o Wire(finalSpec).headers,
   body |-> finalSpec.body]

init ==
  /\ pc = "done" /\ outcome.type = "success" /\ run = 1
  /\ run' = 2
  /\ input' = Produced
  /\ pc' = "lookup"
  /\ call' = Idle
  /\ originalHeaders' = <<>>
  /\ originalResp' = NoResponse
  /\ minimalQuery' = <<>>
  /\ minimalBody' = NoBody
  /\ bodyParams' = <<>>
  /\ minimalHeaders' = <<>>
  /\ cookies' = <<>>
  /\ todo' = <<>>
  /\ crumbs' = <<>>
  /\ jstack' = <<>>
  /\ originalBody' = NoBody
  /\ outcome' = NoOutcome
  /\ console' = {}
  /\ hist' = NoHist
  /\ UNCHANGED <<config, served, faults, sessions, unsettled>>

\* the runs in which every send is answered: the fault budget starts spent
InitAnswered ==
  /\ input \in Inputs
  /\ config \in Configs
  /\ pc = "lookup"
  /\ call = Idle
  /\ served = {}
  /\ faults = [sends |-> MaxFaults, calls |-> MaxFaultyCalls]
  /\ originalHeaders = <<>>
  /\ originalResp = NoResponse
  /\ minimalQuery = <<>>
  /\ minimalBody = NoBody
  /\ bodyParams = <<>>
  /\ minimalHeaders = <<>>
  /\ cookies = <<>>
  /\ todo = <<>>
  /\ crumbs = <<>>
  /\ jstack = <<>>
  /\ originalBody = NoBody
  /\ outcome = NoOutcome
  /\ sessions = 0
  /\ console = {}
  /\ run = 1
  /\ unsettled = 0
  /\ hist = NoHist

NextAgain == sendRequestWithTimeout \/ minimizeRequest \/ init

SpecAgain == InitAnswered /\ [][NextAgain]_vars

\* ------------------------------------------- configurations lacking a field
\* Requests with a query key and the headers sec-a and X-A, run under a
\* configuration object that lacks one field.
PartialInputs ==
  {[found |-> TRUE, query |-> [keys |-> <<"a">>, canon |-> TRUE],
    headers |-> <<Header("Host", <<"h">>), Header("sec-a", <<"1">>)>> \o xa,
    body |-> NoBody] : xa \in {<<>>, <<Header("X-A", <<"1">>)>>}}

InitPartial ==
  /\ input \in PartialInputs
  /\ config \in PartialConfigs
  /\ pc = "lookup"
  /\ call = Idle
  /\ served = {}
  /\ faults = [sends |-> 0, calls |-> 0]
  /\ originalHeaders = <<>>
  /\ originalResp = NoResponse
  /\ minimalQuery = <<>>
  /\ minimalBody = NoBody
  /\ bodyParams = <<>>
  /\ minimalHeaders = <<>>
  /\ cookies = <<>>
  /\ todo = <<>>
  /\ crumbs = <<>>
  /\ jstack = <<>>
  /\ originalBody = NoBody
  /\ outcome = NoOutcome
  /\ sessions = 0
  /\ console = {}
  /\ run = 1
  /\ unsettled = 0
  /\ hist = NoHist

NextPartial ==
  \/ sendRequestWithTimeout
  \/ get \/ baseline \/ queryTrial \/ queryResolve \/ queryDone \/ formDone
  \/ headerAutoRemove \/ headerTrial \/ headerResolve \/ headersDone
  \/ minimizeJsonBody \/ finalSend \/ finalResolve \/ createSession

SpecPartial == InitPartial /\ [][NextPartial]_vars

\* ------------------------------------------------- the form stage on its own
\* the state of a handler that has not started
Fresh ==
  /\ pc = "lookup"
  /\ call = Idle
  /\ served = {}
  /\ faults = [sends |-> 0, calls |-> 0]
  /\ originalHeaders = <<>>
  /\ originalResp = NoResponse
  /\ minimalQuery = <<>>
  /\ minimalBody = NoBody
  /\ bodyParams = <<>>
  /\ minimalHeaders = <<>>
  /\ cookies = <<>>
  /\ todo = <<>>
  /\ crumbs = <<>>
  /\ jstack = <<>>
  /\ originalBody = NoBody
  /\ outcome = NoOutcome
  /\ sessions = 0
  /\ console = {}
  /\ run = 1
  /\ unsettled = 0
  /\ hist = NoHist

\* Requests with the form content type and a form body of two or three
\* parameters, and requests the form stage has to leave alone: no body under
\* the form content type, and a body under no or another content type.
FormInputs ==
  {[found |-> TRUE, query |-> [keys |-> q, canon |-> TRUE],
    headers |-> <<Header("Host", <<"h">>), Header("content-type", <<FormType>>)>>,
    body |-> b] :
     q \in {<<>>, <<"a">>},
     b \in {FormBody(<<"x", "y">>, TRUE), FormBody(<<"y", "x", "y">>, TRUE), NoBody}}
  \cup
  {[found |-> TRUE, query |-> [keys |-> <<>>, canon |-> TRUE],
    headers |-> <<Header("Host", <<"h">>)>> \o ct,
    body |-> FormBody(<<"x", "y">>, TRUE)] :
     ct \in {<<>>, <<Header("content-type", <<JsonType>>)>>}}

InitForm ==
  /\ input \in FormInputs
  /\ config = BaseConfig
  /\ Fresh

NextForm ==
  \/ sendRequestWithTimeout \/ sendSettles
  \/ get \/ baseline \/ queryTrial \/ queryResolve \/ queryDone
  \/ formTrial \/ formResolve \/ formDone
  \/ headerTrial \/ headerResolve \/ headersDone
  \/ minimizeJsonBody \/ finalSend \/ finalResolve \/ createSession

SpecForm == InitForm /\ [][NextForm]_vars

\* ------------------------------------------- header names in either case
\* Requests with a form body whose Host, Cookie and content-type headers are
\* spelled with capitals or in lower case, as the keys of getHeaders() are
\* given.
CasedInputs ==
  {[found |-> TRUE, query |-> [keys |-> <<>>, canon |-> TRUE],
    headers |-> <<Header(host, <<"h">>)>> \o ck \o <<Header(ct, <<FormType>>)>>,
    body |-> FormBody(<<"x", "y">>, TRUE)] :
     host \in {"Host", "host"},
     ck \in {<<>>, <<Header("Cookie", <<"a=1">>)>>, <<Header("cookie", <<"a=1">>)>>},
     ct \in {"Content-Type", "content-type"}}

InitCased ==
  /\ input \in CasedInputs
  /\ config = BaseConfig
  /\ Fresh

NextCased ==
  \/ sendRequestWithTimeout \/ sendSettles
  \/ get \/ baseline \/ queryDone
  \/ formTrial \/ formResolve \/ formDone
  \/ cookieAllTrial \/ cookieAllResolve \/ crumbTrial \/ crumbResolve \/ crumbsDone
  \/ headerTrial \/ headerResolve \/ headersDone
  \/ minimizeJsonBody \/ finalSend \/ finalResolve \/ createSession

SpecCased == InitCased /\ [][NextCased]_vars

\* --------------------------------------------- header patterns on their own
\* Requests with one or two headers besides Host, under configurations whose
\* pattern lists hold a pattern with a star, one without, one that is no
\* regular expression, or nothing.
PatternInputs ==
  {[found |-> TRUE, query |-> [keys |-> <<>>, canon |-> TRUE],
    headers |-> <<Header("Host", <<"h">>)>> \o hs, body |-> NoBody] :
     hs \in {<<Header("sec-a", <<"1">>)>>, <<Header("x-sec", <<"1">>)>>,
             <<Header("X-A", <<"1">>)>>,
             <<Header("x-sec", <<"1">>), Header("X-A", <<"1">>)>>,
             <<Header("sec-a", <<"1">>), Header("x-sec", <<"1">>)>>}}

PatternConfigs ==
  {[BaseConfig EXCEPT !.autoRemovedHeaders = a, !.doNotRemoveHeaders = d] :
     a \in {<<"sec-*">>, <<"sec-">>, <<"x-a">>, <<"[">>, <<>>},
     d \in {<<>>, <<"sec-">>, <<"X-A">>}}

InitPatterns ==
  /\ input \in PatternInputs
  /\ config \in PatternConfigs
  /\ Fresh

NextPatterns ==
  \/ sendRequestWithTimeout \/ sendSettles
  \/ get \/ baseline \/ queryDone \/ formDone
  \/ headerSkip \/ headerAutoRemove \/ headerTrial \/ headerResolve \/ headersDone
  \/ minimizeJsonBody \/ finalSend \/ finalResolve \/ createSession

SpecPatterns == InitPatterns /\ [][NextPatterns]_vars

\* ----------------------------------------------- bodies with nothing to reduce
\* Requests whose body is a JSON leaf (a number, a string, true, false, null),
\* an empty array, an empty object, or a text that does not parse as JSON, sent
\* under no content type, the JSON one or the form one, with or without a
\* query key.
TrivialBodies ==
  {JsonBody(d, FALSE) : d \in {Num(1), NullDoc, Arr(<<>>), Obj(<<>>)}} \cup {RawBody}

TrivialInputs ==
  {[found |-> TRUE, query |-> [keys |-> q, canon |-> TRUE],
    headers |-> <<Header("Host", <<"h">>)>> \o ct, body |-> b] :
     q \in {<<>>, <<"a">>},
     ct \in {<<>>} \cup {<<Header("content-type", <<t>>)>> : t \in {JsonType, FormType}},
     b \in TrivialBodies}

InitTrivial ==
  /\ input \in TrivialInputs
  /\ config = BaseConfig
  /\ Fresh

NextTrivial ==
  \/ sendRequestWithTimeout \/ sendSettles
  \/ get \/ baseline \/ queryTrial \/ queryResolve \/ queryDone
  \/ formTrial \/ formResolve \/ formDone
  \/ headerTrial \/ headerResolve \/ headersDone
  \/ minimizeJsonBody \/ finalSend \/ finalResolve \/ createSession

SpecTrivial == InitTrivial /\ [][NextTrivial]_vars

\* ------------------------------------------------ compareResponses on its own
\* The function applied to a pair of responses drawn from the combinations of
\* status codes, header values and bodies below.
CompareBodies ==
  { AbsentBody,
    Body("empty", 0, {}, ""),
    Body("object", 7, {"a"}, "{\"a\":1}"),
    Body("object", 7, {"a"}, "{\"a\":2}"),
    Body("object", 7, {"b"}, "{\"b\":1}"),
    Body("invalid", 7, {}, "{\"a\":1,"),
    Body("null", 4, {}, "null"),
    Body("primitive", 4, {}, "1234"),
    Body("array", 4, {"0"}, "[12]"),
    Body("invalid", 4, {}, "oops") }

CompareResponsesOf ==
  [code : {200, 403}, clen : {"", "7"},
   ctype : {"", "text/html", "application/json; charset=utf-8"},
   location : {<<>>, <<"/a">>, <<"/b">>}, body : CompareBodies]

InitCompare ==
  /\ input = [found |-> FALSE, query |-> [keys |-> <<>>, canon |-> TRUE],
              headers |-> <<>>, body |-> NoBody]
  /\ config = BaseConfig
  /\ pc = "compare"
  /\ \E current \in CompareResponsesOf :
       call = [Idle EXCEPT !.status = "returned", !.hasResp = TRUE, !.resp = current]
  /\ served = {}
  /\ faults = [sends |-> 0, calls |-> 0]
  /\ originalHeaders = <<>>
  /\ originalResp \in CompareResponsesOf
  /\ minimalQuery = <<>>
  /\ minimalBody = NoBody
  /\ bodyParams = <<>>
  /\ minimalHeaders = <<>>
  /\ cookies = <<>>
  /\ todo = <<>>
  /\ crumbs = <<>>
  /\ jstack = <<>>
  /\ originalBody = NoBody
  /\ outcome = NoOutcome
  /\ sessions = 0
  /\ console = {}
  /\ run = 1
  /\ unsettled = 0
  /\ hist = NoHist

\* await compareResponses(originalResp, response)
compare ==
  /\ pc = "compare"
  /\ hist' = [hist EXCEPT !.compared = compareResult(originalResp, call.resp)]
  /\ pc' = "compared"
  /\ UNCHANGED <<unsettled, run, input, config, call, served, faults, originalHeaders, originalResp,
                 minimalQuery, minimalBody, bodyParams, minimalHeaders, cookies, todo,
                 crumbs, jstack, originalBody, outcome, sessions, console>>

SpecCompare == InitCompare /\ [][compare]_vars

\* ------------------------------------------------- the JSON pass on its own
\* Requests that have nothing but a JSON body: no query, no header but Host.
\* The stages before the JSON pass have nothing to try.
BigDocs ==
  { Obj(<<Entry("a", Num(1)), Entry("b", Obj(<<Entry("c", Num(2)), Entry("d", Num(3))>>))>>),
    Obj(<<Entry("b", Obj(<<Entry("d", Arr(<<Entry("0", Num(3))>>))>>)), Entry("a", Num(1))>>),
    Arr(<<Entry("0", Num(1)), Entry("1", Arr(<<Entry("0", Num(2)), Entry("1", Num(3))>>))>>),
    Arr(<<Entry("0", Arr(<<Entry("0", Num(1))>>)), Entry("1", Num(2)), Entry("2", Num(3))>>) }

JsonInputs ==
  {[found |-> TRUE, query |-> [keys |-> <<>>, canon |-> TRUE],
    headers |-> <<Header("Host", <<"h">>)>>, body |-> JsonBody(d, FALSE)] : d \in BigDocs}

InitJson ==
  /\ input \in JsonInputs
  /\ config = BaseConfig
  /\ pc = "lookup"
  /\ call = Idle
  /\ served = {}
  /\ faults = [sends |-> 0, calls |-> 0]
  /\ originalHeaders = <<>>
  /\ originalResp = NoResponse
  /\ minimalQuery = <<>>
  /\ minimalBody = NoBody
  /\ bodyParams = <<>>
  /\ minimalHeaders = <<>>
  /\ cookies = <<>>
  /\ todo = <<>>
  /\ crumbs = <<>>
  /\ jstack = <<>>
  /\ originalBody = NoBody
  /\ outcome = NoOutcome
  /\ sessions = 0
  /\ console = {}
  /\ run = 1
  /\ unsettled = 0
  /\ hist = NoHist

NextJson ==
  \/ sendRequestWithTimeout
  \/ get \/ baseline \/ queryDone \/ formDone \/ headersDone
  \/ minimizeJsonBody \/ jsonTrial \/ jsonResolve
  \/ finalSend \/ finalResolve \/ createSession

SpecJson == InitJson /\ [][NextJson]_vars

\* --------------------------------------- documents with sibling containers
\* The documents of BigDocs and documents with two containers side by side,
\* so that the recursion runs with a sibling already reduced and with a
\* sibling not yet entered.
SiblingDocs ==
  { Obj(<<Entry("a", Obj(<<Entry("c", Num(2))>>)), Entry("b", Obj(<<Entry("d", Num(3))>>))>>),
    Arr(<<Entry("0", Arr(<<Entry("0", Num(1))>>)), Entry("1", Arr(<<Entry("0", Num(2))>>))>>) }

NestedInputs ==
  {[found |-> TRUE, query |-> [keys |-> <<>>, canon |-> TRUE],
    headers |-> <<Header("Host", <<"h">>)>>, body |-> JsonBody(d, FALSE)] :
     d \in BigDocs \cup SiblingDocs}

InitNested ==
  /\ input \in NestedInputs
  /\ config = BaseConfig
  /\ Fresh

SpecNested == InitNested /\ [][NextJson]_vars


\* ================================================================== claims
TrialTags == {"query", "form", "cookieAll", "crumb", "header", "json"}

LowerNames(headers) == {toLowerCase(headers[i].name) : i \in 1..Len(headers)}

\* the value a request carries for the header of this (lower-case) name
SentValue(spec, name) ==
  spec.headers[CHOOSE i \in 1..Len(spec.headers) :
                 toLowerCase(spec.headers[i].name) = name].value

\* C1: in a run with a baseline response, the request built from the committed
\* state is answered, at the final send, by a response that compareResponses
\* judges equivalent to the baseline response.
C1_FinalEquivalent ==
  (call.tag = "final" /\ call.status = "returned" /\ call.hasResp)
    => compareResponses(originalResp, call.resp)

\* C2: a second run, on the request a first run produced and against the same
\* deterministic server, removes nothing: its final request has the query
\* keys, the headers with their values, the body parameters and the JSON
\* document of its input.
C2_Idempotent ==
  (run = 2 /\ call.tag = "final") =>
    /\ call.spec.path.keys = input.query.keys
    /\ Wire(call.spec).headers
         = Wire(RequestSpec(input.query, input.headers, input.body)).headers
    /\ call.spec.body.type = input.body.type
    /\ call.spec.body.params = input.body.params
    /\ call.spec.body.doc = input.body.doc

\* C3: the query keys, form-body keys, header names and cookie crumbs of the
\* final request are among those of the original request, and its JSON
\* document has at most as many nodes as the original one.
C3_Monotone ==
  call.tag = "final" =>
    /\ Range(call.spec.path.keys) \subseteq Range(input.query.keys)
    /\ Range(call.spec.body.params) \subseteq Range(BodyParams(input.body))
    /\ LowerNames(call.spec.headers) \subseteq LowerNames(input.headers)
    /\ \A i \in 1..Len(call.spec.headers) :
         toLowerCase(call.spec.headers[i].name) = "cookie" =>
           Range(Crumbs(call.spec.headers[i].value))
             \subseteq Range(Crumbs(ValueOf(input.headers, "Cookie")))
    /\ NodeCount(call.spec.body.doc) <= NodeCount(input.body.doc)

\* a final request that lost a query key, a header and a JSON node or a crumb
C3_Witness ==
  /\ call.tag = "final"
  /\ Len(call.spec.path.keys) + Len(call.spec.headers) + 1
       < Len(input.query.keys) + Len(input.headers)
  /\ \/ NodeCount(call.spec.body.doc) < NodeCount(input.body.doc)
     \/ Len(call.spec.path.keys) < Len(input.query.keys)

\* C4: a trial whose transport call fails after all retries counts as a
\* rejected removal; no run ends in error on account of a trial.
C4_TrialFailureKeeps ==
  outcome.type = "error" => outcome.at \notin TrialTags

\* C5: when the final send produced a response and createSession was called,
\* the run ends as success or, if no session could be opened, as warning.
C5_SessionFailureWarns ==
  (pc = "done" /\ sessions > 0) => outcome.type \in {"success", "warning"}

\* C6: an unresolved request identifier means no send at all; without a
\* baseline response the run ends in error and no trial, final send or session
\* creation follows the baseline attempts.
C6_BaselineAbsence ==
  /\ ~input.found =>
       /\ call = Idle /\ served = {} /\ faults.sends = 0 /\ sessions = 0
       /\ pc = "done" => outcome.type = "error"
  /\ originalResp = NoResponse =>
       /\ call.tag \in {"", "baseline"}
       /\ sessions = 0
       /\ pc = "done" => outcome.type = "error"
  /\ pc = "done" => call.status = "idle"

\* the baseline failed after a retry
C6_Witness ==
  /\ input.found /\ pc = "done" /\ outcome = Err("baseline") /\ faults.sends = 2

\* C7: an error raised inside the JSON pass abandons the pass: the committed
\* body, and the body of the final request, is the body the previous stage
\* left, the run goes on to the final send and the error is no outcome.
C7_JsonFailSafe ==
  "json" \in console =>
    /\ pc \in {"final", "session", "done"}
    /\ jstack = <<>>
    /\ minimalBody = originalBody
    /\ call.tag = "final" => call.spec.body = originalBody
    /\ outcome.at # "json"
    /\ outcome.type = "none" => pc # "done"

\* the JSON pass failed after one of its trials had been accepted, and the
\* final request was sent
C7_Witness ==
  /\ "json" \in console
  /\ call.tag = "final" /\ call.status = "returned" /\ call.hasResp
  /\ \E e \in served :
       /\ e.req.body.type = "json"
       /\ NodeCount(e.req.body.doc) < NodeCount(input.body.doc)
       /\ compareResponses(originalResp, e.resp)

\* C8: one call of the wrapper makes at most maxRetries + 1 sends; while it is
\* pending every send so far failed and was followed by a wait; it returns the
\* result of the first send that settles and raises, after exactly
\* maxRetries + 1 failed sends, the error of the last one.
C8_Wrapper ==
  /\ call.attempts <= config.requestConfig.maxRetries + 1
  /\ call.status = "pending" =>
       /\ call.attempts = call.retryCount
       /\ call.waits = call.attempts
       /\ call.attempts > 0 => call.last \in {"raise", "timeout"}
  /\ call.status = "returned" =>
       /\ call.attempts = call.retryCount + 1
       /\ call.waits = call.attempts - 1
       /\ call.last \in {"resp", "noresp"}
       /\ call.hasResp <=> call.last = "resp"
  /\ call.status = "threw" =>
       /\ call.attempts = config.requestConfig.maxRetries + 1
       /\ call.waits = config.requestConfig.maxRetries
       /\ call.error = call.last
       /\ call.last \in {"raise", "timeout"}

\* a call that raised after a retry
C8_Witness ==
  call.status = "threw" /\ call.attempts = 2 /\ call.error = "timeout"

\* the header stage has dealt with header h
HeaderDone(h) ==
  \/ pc \in {"json", "final", "session"}
  \/ pc = "done" /\ outcome.at \in {"", "final", "session"}
  \/ pc \in {"headers", "cookieAll", "crumbs", "header"} /\ h \notin Range(todo)

\* C9: a header matching an auto-removed pattern and no do-not-remove pattern
\* leaves the committed header set without a trial of its own, and no later
\* trial request and not the final request carries it.
C9_AutoRemovedAbsent ==
  \A i \in 1..Len(input.headers) :
    LET h == input.headers[i].name IN
    ( /\ config.minimizationSteps.headers # FALSE
      /\ toLowerCase(h) # "host"
      /\ shouldRemoveHeader(h, config.autoRemovedHeaders)
      /\ ~shouldRemoveHeader(h, config.doNotRemoveHeaders) ) =>
        /\ ~(call.tag \in {"header", "cookieAll", "crumb"} /\ Head(todo) = h)
        /\ HeaderDone(h) =>
             /\ h \notin Range(minimalHeaders)
             /\ call.status # "idle" => toLowerCase(h) \notin LowerNames(call.spec.headers)

\* C10: a header, not Host, matching a do-not-remove pattern is never the
\* subject of a trial and every request sent carries it with its original
\* value, also when it matches an auto-removed pattern, also the Cookie header.
C10_DoNotRemoveKept ==
  \A i \in 1..Len(input.headers) :
    LET h == input.headers[i].name IN
    ( /\ toLowerCase(h) # "host"
      /\ shouldRemoveHeader(h, config.doNotRemoveHeaders) ) =>
        /\ ~(call.tag \in {"header", "cookieAll", "crumb"} /\ Head(todo) = h)
        /\ pc \in {"headers", "cookieAll", "crumbs", "header", "json", "final", "session"}
             => h \in Range(minimalHeaders)
        /\ call.status # "idle" =>
             /\ toLowerCase(h) \in LowerNames(call.spec.headers)
             /\ SentValue(call.spec, toLowerCase(h)) = input.headers[i].value

\* a final request that keeps a header matching both kinds of pattern, and one
\* that keeps a two-crumb Cookie header under do-not-remove
C10_Witness ==
  /\ call.tag = "final" /\ call.status = "returned"
  /\ \E i \in 1..Len(input.headers) :
       LET h == input.headers[i].name IN
       /\ shouldRemoveHeader(h, config.doNotRemoveHeaders)
       /\ shouldRemoveHeader(h, config.autoRemovedHeaders)
       /\ toLowerCase(h) \in LowerNames(call.spec.headers)

\* ------------------------------------------------------------ C11: cookies
\* the Cookie header lines of the original request and their crumbs
InputCookie == CookieOf(RequestSpec(input.query, input.headers, input.body))
InputCrumbs == Crumbs(InputCookie)

\* the Cookie header lines that carry these crumbs: none when no crumb is left
Rebuilt(cs) == IF cs = <<>> THEN <<>> ELSE <<join(cs)>>

\* the crumbs whose removal the first k verdicts did not accept
Kept(k) ==
  SelectSeq(InputCrumbs,
            LAMBDA c : ~\E j \in 2..k : hist.cookie[j].crumb = c /\ hist.cookie[j].accepted)

\* the whole header is trialled first, without any Cookie line; the crumbs are
\* trialled after its rejection only, in original order, each with the header
\* rebuilt from the crumbs committed so far minus the crumb under test
CookieTrials ==
  LET L == hist.cookie IN
  L # <<>> =>
    /\ L[1].crumb = "*" /\ L[1].sent = <<>>
    /\ L[1].accepted => Len(L) = 1
    /\ Len(L) <= Len(InputCrumbs) + 1
    /\ \A k \in 2..Len(L) :
         /\ L[k].crumb = InputCrumbs[k - 1]
         /\ L[k].sent = Rebuilt(Without(Kept(k - 1), L[k].crumb))

\* C11 (as stated): the cookie trials are as above, and the Cookie header of the
\* final request is the crumbs whose removal was rejected, in original order,
\* joined by "; " (no header when the whole header or every crumb was removed).
C11_CookieJoined ==
  /\ CookieTrials
  /\ (call.tag = "final" /\ hist.cookie # <<>>) =>
       CookieOf(call.spec) = IF hist.cookie[1].accepted THEN <<>>
                             ELSE Rebuilt(Kept(Len(hist.cookie)))

\* C11 (amended): the cookie trials are as above; the Cookie header of the
\* final request carries the crumbs whose removal was rejected, in original
\* order: joined by "; " when some crumb was removed, and the original header
\* lines unchanged when none was.
C11_CookieReduction ==
  /\ CookieTrials
  /\ (call.tag = "final" /\ hist.cookie # <<>>) =>
       CookieOf(call.spec) =
         IF hist.cookie[1].accepted THEN <<>>
         ELSE IF Kept(Len(hist.cookie)) = InputCrumbs THEN InputCookie
         ELSE Rebuilt(Kept(Len(hist.cookie)))

\* Cookie: a=1;b=2 of which b=2 alone is needed: the final request carries b=2
C11_Witness ==
  /\ call.tag = "final"
  /\ InputCookie = <<"a=1;b=2">>
  /\ Len(hist.cookie) = 3
  /\ hist.cookie[2].accepted /\ ~hist.cookie[3].accepted
  /\ hist.cookie[2].sent = <<"b=2">> /\ hist.cookie[3].sent = <<>>
  /\ CookieOf(call.spec) = <<"b=2">>
  /\ faults.sends = 0

\* ------------------------------------------------- C12: required JSON nodes
\* The nodes of a document below its root: a leaf is known by its number, a
\* container by its depth (the documents have one container at most per depth).
RECURSIVE NodesAt(_, _)
NodesAt(v, depth) ==
  UNION {IF isComposite(v.kids[i].v)
         THEN {0 - (depth + 1)} \cup NodesAt(v.kids[i].v, depth + 1)
         ELSE {v.kids[i].v.n} : i \in 1..Len(v.kids)}

\* the document restricted to the nodes of R and their ancestors
RECURSIVE Restrict(_, _, _)
Restrict(v, R, depth) ==
  LET needed(e) == IF isComposite(e.v)
                   THEN (({0 - (depth + 1)} \cup NodesAt(e.v, depth + 1)) \cap R) # {}
                   ELSE e.v.n \in R
      kept == SelectSeq(v.kids, needed)
  IN assemble(v.t, [i \in 1..Len(kept) |->
                     IF isComposite(kept[i].v)
                     THEN Entry(kept[i].k, Restrict(kept[i].v, R, depth + 1))
                     ELSE kept[i]])

\* every check of the pass answered as the oracle of R answers
OracleOf(R) ==
  \A i \in 1..Len(hist.json) :
    hist.json[i].accepted <=> (R \subseteq NodesAt(hist.json[i].doc, 0))

\* the JSON pass ran to its end
JsonPassDone ==
  /\ pc \in {"final", "session", "done"} /\ hist.json # <<>> /\ "json" \notin console

\* C12: when every check of the JSON pass was answered as the oracle of a set
\* R of nodes of the input document answers (accept exactly the candidates
\* that contain every node of R), the pass returns the input document
\* restricted to the nodes of R and their ancestors.
C12_RequiredNodes ==
  JsonPassDone =>
    \A R \in SUBSET NodesAt(originalBody.doc, 0) :
      OracleOf(R) => minimalBody.doc = stableStringify(Restrict(originalBody.doc, R, 0))

\* {a:1, b:{c:2, d:3}} with R = {b.d} gives {b:{d:3}}
C12_Witness ==
  /\ JsonPassDone
  /\ originalBody.doc =
       Obj(<<Entry("a", Num(1)), Entry("b", Obj(<<Entry("c", Num(2)), Entry("d", Num(3))>>))>>)
  /\ OracleOf({3})
  /\ minimalBody.doc = Obj(<<Entry("b", Obj(<<Entry("d", Num(3))>>))>>)

\* ------------------------------------------- C13, C14: compareResponses
\* the byte length of a body: none for an absent body
ByteLength(body) == IF body.present THEN body.len ELSE 0

\* JSON.parse accepts the body
Parses(body) == body.present /\ body.kind \in {"object", "array", "primitive", "null"}

\* the five rules on status, content-length, content-type, location, length
FiveRules(original, current) ==
  /\ original.code = current.code
  /\ original.clen = current.clen
  /\ original.ctype = current.ctype
  /\ (original.location # <<>> \/ current.location # <<>>) =>
       /\ original.location # <<>> /\ current.location # <<>>
       /\ original.location = current.location
  /\ ByteLength(original.body) = ByteLength(current.body)

C14_JsonRule ==
  (pc = "compared" /\ FiveRules(originalResp, call.resp)) =>
    (hist.compared = "true") <=>
      IF IncludesJson(originalResp.ctype)
      THEN IF Parses(originalResp.body) /\ Parses(call.resp.body)
           THEN originalResp.body.keys = call.resp.body.keys
           ELSE originalResp.body.text = call.resp.body.text
      ELSE TRUE

\* -------------------------------------------------- C15: missing fields
\* the value a field has, or its default when the configuration lacks it
EffectiveMaxRetries ==
  IF {"maxRetries", "requestConfig"} \cap config.missing # {}
  THEN DEFAULT_CONFIG.requestConfig.maxRetries ELSE config.requestConfig.maxRetries
EffectiveAutoRemoved ==
  IF "autoRemovedHeaders" \in config.missing
  THEN DEFAULT_CONFIG.autoRemovedHeaders ELSE config.autoRemovedHeaders
EffectiveDoNotRemove ==
  IF "doNotRemoveHeaders" \in config.missing
  THEN DEFAULT_CONFIG.doNotRemoveHeaders ELSE config.doNotRemoveHeaders
EffectiveStep(flag) ==
  IF {"minimizationSteps", flag} \cap config.missing # {}
  THEN DEFAULT_CONFIG.minimizationSteps[flag] ELSE config.minimizationSteps[flag]

\* C15: a run under a configuration that lacks a field goes as under the
\* default of that field: a transport call raises only the error of a send,
\* and only after the effective maxRetries + 1 sends; after the header stage
\* no committed header matches an effective auto-removed pattern, unless it
\* matches a do-not-remove pattern or the stage is off; a query trial is made
\* only when the query stage is on.
C15_DefaultsApply ==
  /\ call.status = "threw" =>
       /\ call.error \in {"raise", "timeout"}
       /\ call.attempts = EffectiveMaxRetries + 1
  /\ (pc \in {"json", "final", "session"} /\ EffectiveStep("headers")) =>
       \A i \in 1..Len(minimalHeaders) :
         \/ ~shouldRemoveHeader(minimalHeaders[i], EffectiveAutoRemoved)
         \/ shouldRemoveHeader(minimalHeaders[i], EffectiveDoNotRemove)
  /\ call.tag = "query" => EffectiveStep("queryParameters")

\* -------------------------------------------------- C16: the replay session
\* C16: createSession is invoked at most once in a run, and only after the
\* final send returned a response: the session count moves only from 0 to 1
\* and only where the handler stands at the session step, that step is
\* entered only from a final send that returned with a response, and a run
\* that ended in a warning or in an error raised before the session step
\* has invoked it zero times.
C16_SessionOnce ==
  [][/\ sessions' # sessions => sessions = 0 /\ sessions' = 1 /\ pc = "session"
     /\ (pc' = "session" /\ pc # "session") =>
          /\ call.tag = "final" /\ call.status = "returned"
          /\ call.hasResp /\ call.resp # NoResponse
     /\ (\/ outcome'.type = "warning"
         \/ outcome'.type = "error" /\ outcome'.at # "session") => sessions' = 0]_vars

C16_Witness == sessions = 1 /\ outcome.type = "success" /\ pc = "done"

\* -------------------------------------------------- C17: a stage switched off
\* the final request carries every header of the original request but Host,
\* under its lower-case name and with its whole value
CarriesAllHeaders(spec) ==
  LET kept == SelectSeq(input.headers, LAMBDA h : toLowerCase(h.name) # "host")
  IN /\ Len(spec.headers) = Len(kept)
     /\ \A i \in 1..Len(kept) :
          /\ spec.headers[i].name = toLowerCase(kept[i].name)
          /\ spec.headers[i].value = kept[i].value

\* the configuration switches the stage off
Off(flag) ==
  /\ {"minimizationSteps", flag} \cap config.missing = {}
  /\ config.minimizationSteps[flag] = FALSE

\* C17: a stage whose flag is false sends no trial, and the final request
\* carries that stage's dimension as the stage found it: the original query
\* keys; the body of the original request (where the JSON stage, or the form
\* stage, has nothing to reduce either); every original header but Host,
\* auto-removed ones and the whole Cookie value included.  With the JSON flag
\* false the step over the JSON stage leaves the committed body as it is.
C17_DisabledStage ==
  /\ [](/\ (Off("queryParameters")
             => /\ call.tag # "query"
                /\ (call.tag = "final" => call.spec.path.keys = input.query.keys))
         /\ (Off("formBodyParameters")
             => /\ call.tag # "form"
                /\ (pc \in {"headers", "header", "cookieAll", "crumbs", "json"}
                      => minimalBody = input.body)
                /\ ((call.tag = "final" /\ input.body.type # "json")
                      => call.spec.body = input.body))
         /\ (Off("headers")
             => /\ call.tag \notin {"header", "cookieAll", "crumb"}
                /\ (call.tag = "final" => CarriesAllHeaders(call.spec)))
         /\ (Off("jsonBody")
             => /\ call.tag # "json"
                /\ ((call.tag = "final" /\ ~IsFormType(originalHeaders))
                      => call.spec.body = input.body)))
  /\ [][(Off("jsonBody") /\ pc = "json") => minimalBody' = minimalBody]_vars

\* a run with the header stage off whose final request, answered, carries a
\* header matching an auto-removed pattern
C17_Witness ==
  /\ Off("headers")
  /\ call.tag = "final" /\ call.status = "returned" /\ call.hasResp
  /\ \E i \in 1..Len(call.spec.headers) : AutoRemoved(call.spec.headers[i].name)

\* -------------------------------------------------- C18: one send at a time
\* C18: whenever the engine issues an underlying send (a first attempt, a
\* retry, the next trial or the final send), every send issued before it has
\* settled.
C18_OneOutstanding ==
  [][call'.attempts > call.attempts => unsettled = 0]_vars

StageOf(p) ==
  CASE p = "lookup" -> 0
    [] p = "baseline" -> 1
    [] p = "query" -> 2
    [] p = "form" -> 3
    [] p \in {"headers", "header", "cookieAll", "crumbs"} -> 4
    [] p = "json" -> 5
    [] p = "final" -> 6
    [] p = "session" -> 7
    [] OTHER -> 8

StageOfCall(tag) ==
  CASE tag = "baseline" -> 1
    [] tag = "query" -> 2
    [] tag = "form" -> 3
    [] tag \in {"header", "cookieAll", "crumb"} -> 4
    [] tag = "json" -> 5
    [] tag = "final" -> 6
    [] OTHER -> 9

\* C20: the stages run in the order baseline, query, form, headers, JSON,
\* final send and none is revisited: a call in progress belongs to the stage
\* the handler stands in, the handler never steps back to an earlier stage,
\* and after the final send has ended no call is in progress any more.
C20_StageOrder ==
  /\ [](/\ (call.status # "idle" => StageOfCall(call.tag) = StageOf(pc))
         /\ (StageOf(pc) > 6 => call.status = "idle"))
  /\ [][StageOf(pc') >= StageOf(pc)]_vars

\* a run that removed a query key, tried the Cookie header and has its final
\* request answered
C20_Witness ==
  /\ call.tag = "final" /\ call.status = "returned"
  /\ Len(minimalQuery) < Len(input.query.keys)
  /\ hist.cookie # <<>>

\* -------------------------------------------------- C21: the query stage
\* the query (form) trials resolved so far, in the order they were sent
TrialsOf(stage) == SelectSeq(hist.keys, LAMBDA e : e.stage = stage)

\* the keys of a sequence in first-seen order, each once
RECURSIVE FirstSeen(_)
FirstSeen(keys) ==
  IF keys = <<>> THEN <<>>
  ELSE LET front == FirstSeen(Front(keys))
       IN IF \E i \in 1..Len(front) : front[i] = Last(keys)
          THEN front ELSE Append(front, Last(keys))

IsPrefix(s, t) == Len(s) <= Len(t) /\ s = SubSeq(t, 1, Len(s))

\* the keys whose removal was committed by the first n trials
Removed(trials, n) == {trials[j].key : j \in {k \in 1..n : trials[k].accepted}}

\* the original keys less a set of keys, every occurrence
Less(keys, gone) == SelectSeq(keys, LAMBDA k : k \notin gone)

PastQuery == pc \in {"form", "headers", "header", "cookieAll", "crumbs", "json", "final", "session"}

\* C21: the query trials are sent for the distinct keys of the original query
\* in first-seen order, each once (all of them in a run that gets past the
\* stage); the query of trial i is the original query less the keys removed
\* by the trials before it and less the key under test; every later request
\* (form, header, cookie, JSON trial and the final request) carries the
\* original query less exactly the keys whose removal was accepted.
C21_QueryPass ==
  LET Q == TrialsOf("query")
      tested == [i \in 1..Len(Q) |-> Q[i].key]
  IN /\ IsPrefix(tested, FirstSeen(input.query.keys))
     /\ (PastQuery /\ ~Off("queryParameters")) => tested = FirstSeen(input.query.keys)
     /\ \A i \in 1..Len(Q) :
          Q[i].sent = Less(input.query.keys, Removed(Q, i - 1) \cup {Q[i].key})
     /\ (call.tag = "query" /\ call.status # "idle") =>
          /\ Len(Q) < Len(FirstSeen(input.query.keys))
          /\ call.subj = FirstSeen(input.query.keys)[Len(Q) + 1]
          /\ call.spec.path.keys =
               Less(input.query.keys, Removed(Q, Len(Q)) \cup {call.subj})
     /\ call.tag \in {"form", "header", "cookieAll", "crumb", "json", "final"} =>
          call.spec.path.keys = Less(input.query.keys, Removed(Q, Len(Q)))

\* a run on the query a, b: the removal of a was accepted, that of b refused,
\* and the final request is answered
C21_Witness ==
  LET Q == TrialsOf("query")
  IN /\ Len(Q) = 2 /\ Q[1].accepted /\ ~Q[2].accepted
     /\ call.tag = "final" /\ call.status = "returned"
     /\ call.spec.path.keys = <<"b">>

\* -------------------------------------------------- C22: the form stage
\* the request has a body and its content type is the form content type
FormRequest ==
  /\ input.body.type # "none"
  /\ \E i \in 1..Len(input.headers) :
       /\ input.headers[i].name = "content-type"
       /\ input.headers[i].value = <<FormType>>

PastForm == pc \in {"headers", "header", "cookieAll", "crumbs", "json", "final", "session"}

\* C22: form trials are sent only for a request with a body and the form
\* content type; the keys tested are the distinct parameters of the body in
\* first-seen order, each once (all of them in a run that gets past the
\* stage); a form trial carries the query committed by the query stage, every
\* original header but Host, and the original parameters less those removed
\* by the trials before it and less the key under test.
C22_FormPass ==
  LET F == TrialsOf("form")
      Q == TrialsOf("query")
      P == BodyParams(input.body)
      tested == [i \in 1..Len(F) |-> F[i].key]
  IN /\ (F # <<>> \/ call.tag = "form") => FormRequest
     /\ IsPrefix(tested, FirstSeen(P))
     /\ (PastForm /\ FormRequest /\ ~Off("formBodyParameters")) => tested = FirstSeen(P)
     /\ \A i \in 1..Len(F) : F[i].sent = Less(P, Removed(F, i - 1) \cup {F[i].key})
     /\ call.tag = "form" =>
          /\ Len(F) < Len(FirstSeen(P))
          /\ call.subj = FirstSeen(P)[Len(F) + 1]
          /\ call.spec.body.params = Less(P, Removed(F, Len(F)) \cup {call.subj})
          /\ call.spec.path.keys = Less(input.query.keys, Removed(Q, Len(Q)))
          /\ call.spec.path.keys = minimalQuery
          /\ CarriesAllHeaders(call.spec)

\* a run on the body y=..&x=..&y=..: the removal of y was refused, that of x
\* accepted, after the query key a was removed
C22_Witness ==
  LET F == TrialsOf("form")
  IN /\ input.body.params = <<"y", "x", "y">>
     /\ Len(F) = 2 /\ ~F[1].accepted /\ F[2].accepted
     /\ F[2].sent = <<"y", "y">>
     /\ minimalQuery = <<>> /\ input.query.keys = <<"a">>
     /\ PastForm

\* -------------------------------------------------- C23: the delay before a header trial
\* C23: every trial of the header stage (the removal of the whole Cookie
\* header, of one crumb, of one other header) is sent after a wait of
\* minDelayMs that follows the end of the send before it.
C23_HeaderTrialsDelayed ==
  (call.tag \in {"cookieAll", "crumb", "header"} /\ call.status # "idle") => call.delayed

\* -------------------------------------------------- C24: one dimension per trial
\* the headers of the request built from the committed state: before the
\* header stage every original header but Host, from then on the committed ones
CommittedHeaders ==
  IF pc \in {"query", "form"}
  THEN HeadersOf(NotHost(Names(originalHeaders)), originalHeaders)
  ELSE HeadersOf(minimalHeaders, originalHeaders)

\* the trials of the stages before the JSON stage leave the other dimensions
\* as committed
OtherDimensionsKept ==
  /\ (call.tag = "query" /\ call.status # "idle") =>
       /\ call.spec.headers = CommittedHeaders
       /\ call.spec.body = input.body
  /\ (call.tag = "form" /\ call.status # "idle") =>
       /\ call.spec.path = toString(minimalQuery)
       /\ call.spec.headers = CommittedHeaders
  /\ (call.tag \in {"cookieAll", "crumb", "header"} /\ call.status # "idle") =>
       /\ call.spec.path = toString(minimalQuery)
       /\ call.spec.body = minimalBody

\* C24: a trial differs from the request built from the committed state in
\* the dimension of its stage only; a JSON trial carries the committed query
\* and exactly the committed headers.
C24_OneDimension ==
  /\ OtherDimensionsKept
  /\ (call.tag = "json" /\ call.status # "idle") =>
       /\ call.spec.path = toString(minimalQuery)
       /\ call.spec.headers = CommittedHeaders

\* -------------------------------------------------- C25: the elimination phase
\* the value under a path of keys
RECURSIVE NodeAt(_, _)
NodeAt(v, path) ==
  IF path = <<>> THEN v
  ELSE NodeAt(v.kids[CHOOSE i \in 1..Len(v.kids) : v.kids[i].k = Head(path)].v, Tail(path))

Reverse(s) == [i \in 1..Len(s) |-> s[Len(s) + 1 - i]]

\* the JSON trials of the container under a path, in the order they were sent
TrialsAt(path) == SelectSeq(hist.json, LAMBDA e : e.path = path)

\* the children of a container that its first n trials decided to keep, in
\* the order they were decided
Survivors(children, trials, n) ==
  LET kept == SelectSeq(SubSeq(trials, 1, n), LAMBDA e : ~e.accepted)
  IN [i \in 1..Len(kept) |->
        children[CHOOSE j \in 1..Len(children) : children[j].k = kept[i].key]]

\* the numbers at the leaves of a value
RECURSIVE Leaves(_)
Leaves(v) ==
  IF v.t = "num" THEN {v.n} ELSE UNION {Leaves(v.kids[i].v) : i \in 1..Len(v.kids)}

\* C25: for every container the pass reduces, the children are tested last
\* enumerated first, each once (all of them when the pass ran to its end);
\* the trial container of the i-th test holds the children not yet tested
\* and the survivors decided so far, without the child under test; and in the
\* result of the pass no leaf of an eliminated child of the root is left,
\* while every scalar child of the root that was kept is there.
C25_Elimination ==
  /\ \A e \in Range(hist.json) :
       LET T == TrialsAt(e.path)
           node == NodeAt(originalBody.doc, e.path)
           children == node.kids
           n == Len(children)
           tested == [i \in 1..Len(T) |-> T[i].key]
       IN /\ IsPrefix(tested, Reverse([i \in 1..n |-> children[i].k]))
          /\ JsonPassDone => Len(T) = n
          /\ \A i \in 1..Len(T) :
               T[i].part = assemble(node.t, SubSeq(children, 1, n - i)
                                              \o Survivors(children, T, i - 1))
  /\ JsonPassDone =>
       LET T == TrialsAt(<<>>)
           children == originalBody.doc.kids
       IN \A i \in 1..Len(T) :
            LET c == children[CHOOSE j \in 1..Len(children) : children[j].k = T[i].key]
            IN IF T[i].accepted
               THEN Leaves(c.v) \cap Leaves(minimalBody.doc) = {}
               ELSE ~isComposite(c.v) => c.v.n \in Leaves(minimalBody.doc)

\* [[1], 2, 3]: 3 was eliminated, 2 kept, [1] kept, and the pass is over
C25_Witness ==
  LET T == TrialsAt(<<>>)
  IN /\ JsonPassDone
     /\ originalBody.doc.t = "arr" /\ Len(originalBody.doc.kids) = 3
     /\ Len(T) = 3
     /\ T[1].accepted /\ ~T[2].accepted /\ ~T[3].accepted
     /\ T[3].part = Arr(<<Entry("0", Num(2))>>)

\* -------------------------------------------------- C26: the recursion phase
\* the trials, among those of H, of the container under a path
TrialsIn(H, path) == SelectSeq(H, LAMBDA e : e.path = path)

\* the children of v (the container under path) that its trials in H refused
\* to eliminate
KeptIn(H, v, path) ==
  SelectSeq(v.kids, LAMBDA c : \E e \in Range(TrialsIn(H, path)) : e.key = c.k /\ ~e.accepted)

\* the value under path as the trials of H have reduced it: a container not
\* yet entered is as in the input
RECURSIVE Reduced(_, _, _)
Reduced(H, v, path) ==
  IF v.t = "num" \/ TrialsIn(H, path) = <<>> THEN v
  ELSE LET kept == KeptIn(H, v, path)
       IN assemble(v.t, [i \in 1..Len(kept) |->
                          Entry(kept[i].k, Reduced(H, kept[i].v, Append(path, kept[i].k)))])

\* the document in which the container under path p is replaced by part, the
\* siblings on the way down being the survivors as the trials of H left them
RECURSIVE Plug(_, _, _, _, _)
Plug(H, v, q, p, part) ==
  IF q = p THEN part
  ELSE LET k == p[Len(q) + 1]
           kept == KeptIn(H, v, q)
       IN assemble(v.t, [i \in 1..Len(kept) |->
                          IF kept[i].k = k
                          THEN Entry(k, Plug(H, kept[i].v, Append(q, k), p, part))
                          ELSE Entry(kept[i].k,
                                     Reduced(H, kept[i].v, Append(q, kept[i].k)))])

\* C26: a trial of a nested container is sent only when every child of the
\* enclosing container has been tested, and only for a child that was kept
\* (so below an eliminated child nothing is tested); its document is the whole
\* document in which that container alone is replaced by the trial container,
\* the siblings on the way being the survivors, reduced where the recursion
\* has been through them and as in the input where it has not; and a scalar
\* that was kept is in the result as it was.
C26_Recursion ==
  /\ \A i \in 1..Len(hist.json) :
       LET e == hist.json[i]
           H == SubSeq(hist.json, 1, i - 1)
           p == e.path
       IN /\ \A k \in 1..Len(p) :
               LET q == SubSeq(p, 1, k - 1)
                   T == TrialsIn(H, q)
               IN /\ Len(T) = Len(NodeAt(originalBody.doc, q).kids)
                  /\ TrialsIn(hist.json, q) = T
                  /\ \E t \in Range(T) : t.key = p[k] /\ ~t.accepted
                  /\ NodeAt(originalBody.doc, SubSeq(p, 1, k)).t \in {"obj", "arr"}
          /\ e.doc = stableStringify(Plug(H, originalBody.doc, <<>>, p, e.part))
  /\ JsonPassDone =>
       \A e \in Range(hist.json) :
         LET c == NodeAt(originalBody.doc, Append(e.path, e.key))
         IN (~e.accepted /\ c.t = "num") => c.n \in Leaves(minimalBody.doc)

\* {a: {c: 2}, b: {d: 3}}: both children kept; a was entered first and lost
\* c; then d is under test inside b, in a document that holds a reduced to {}
C26_Witness ==
  /\ Len(hist.json) = 4
  /\ hist.json[3].path = <<"a">> /\ hist.json[3].accepted
  /\ hist.json[4].path = <<"b">> /\ hist.json[4].key = "d"
  /\ hist.json[4].doc = Obj(<<Entry("a", Obj(<<>>)), Entry("b", Obj(<<>>))>>)

\* -------------------------------------------------- C27: nothing to reduce
\* the body of the request is a JSON leaf or an empty container, or does not
\* parse as JSON
NothingToReduce ==
  \/ input.body.type = "raw"
  \/ input.body.type = "json" /\ input.body.doc.kids = <<>>

\* C27: for such a body the JSON stage sends no trial and leaves the body as
\* the form stage left it: the step over the stage does not change the
\* committed body, and the final request carries it (the body of the request
\* itself when the form stage does not apply).
C27_NothingToReduce ==
  /\ [](NothingToReduce =>
         /\ call.tag # "json" /\ hist.json = <<>> /\ jstack = <<>>
         /\ (call.tag = "final" /\ ~IsFormType(input.headers)) =>
              call.spec.body = input.body)
  /\ [][(NothingToReduce /\ pc = "json") => minimalBody' = minimalBody]_vars

\* the final request of a run on the body [] sent under the JSON content type
\* is answered
C27_Witness ==
  /\ input.body = JsonBody(Arr(<<>>), FALSE)
  /\ call.tag = "final" /\ call.status = "returned" /\ call.hasResp
  /\ call.spec.body = input.body
  /\ Has(input.headers, "content-type")

\* -------------------------------------------------- C28: one comparison target
\* the answer the server gave to the request as it was captured
BaselineRequest ==
  RequestSpec(input.query, HeadersOf(Names(input.headers), input.headers), input.body)

BaselineResp == (CHOOSE e \in served : e.req = Wire(BaselineRequest)).resp

\* C28: the baseline response, once captured, is never replaced; at every
\* trial it is the answer to the request as captured, and the verdict (query,
\* form, whole Cookie, crumb, header, JSON at any depth) is that the trial
\* returned a response which compareResponses finds equivalent to it.
C28_OneBaseline ==
  [][/\ (originalResp # NoResponse => originalResp' = originalResp)
     /\ ((call.status = "returned" /\ call'.status = "idle" /\ call.tag \in TrialTags) =>
          LET ok == call.hasResp /\ compareResponses(BaselineResp, call.resp)
          IN /\ originalResp = BaselineResp
             /\ (call.tag \in {"query", "form"} => Last(hist'.keys).accepted = ok)
             /\ (call.tag \in {"cookieAll", "crumb"} => Last(hist'.cookie).accepted = ok)
             /\ (call.tag = "json" => Last(hist'.json).accepted = ok)
             /\ (call.tag = "header" => (minimalHeaders' # minimalHeaders) = ok)
             /\ (call.tag = "query" => (minimalQuery' # minimalQuery) = ok)
             /\ (call.tag = "form" => (bodyParams' # bodyParams) = ok))]_vars

\* a second trial was judged against the baseline after a first one had been
\* accepted with a response that is not the baseline one
C28_Witness ==
  /\ Len(hist.keys) = 2 /\ hist.keys[1].accepted /\ ~hist.keys[2].accepted
  /\ \E e \in served : e.resp # originalResp /\ compareResponses(originalResp, e.resp)

\* ------------------------------------------- C29: the shape of what is built
\* every array of a value is indexed 0, 1, ... without a gap, and no object
\* of it holds a key twice
RECURSIVE WellFormed(_)
WellFormed(v) ==
  /\ v.t = "arr" => \A i \in 1..Len(v.kids) : IndexOrder[v.kids[i].k] = i - 1
  /\ v.t = "obj" => \A i, j \in 1..Len(v.kids) : v.kids[i].k = v.kids[j].k => i = j
  /\ \A i \in 1..Len(v.kids) : WellFormed(v.kids[i].v)

\* the children of an input container that are left when the keys of gone
\* are taken out, in the order of the input
ChildrenLeft(children, gone) == SelectSeq(children, LAMBDA c : c.k \notin gone)

\* a built container holds the given children of the input container: an
\* array their values in the same order and nothing else, an object their
\* keys and nothing else, each with its value
Holds(built, kind, kept) ==
  /\ built.t = kind
  /\ Len(built.kids) = Len(kept)
  /\ IF kind = "arr"
     THEN \A i \in 1..Len(kept) : built.kids[i].v = kept[i].v
     ELSE \A i \in 1..Len(kept) :
            \E j \in 1..Len(built.kids) : built.kids[j] = kept[i]

\* the children of the container under a path that the pass kept
KeptAt(v, path) ==
  SelectSeq(v.kids, LAMBDA c :
    \E e \in Range(hist.json) : e.path = path /\ e.key = c.k /\ ~e.accepted)

\* res is the input value v (found under path) with, at every depth, the kept
\* children only: in the order of the input for an array, as a set of keys for
\* an object
RECURSIVE Matches(_, _, _)
Matches(res, v, path) ==
  IF ~isComposite(v) THEN res = v
  ELSE LET kept == KeptAt(v, path)
       IN /\ res.t = v.t
          /\ Len(res.kids) = Len(kept)
          /\ \A i \in 1..Len(kept) :
               \E j \in 1..Len(res.kids) :
                 /\ v.t = "arr" => j = i
                 /\ v.t = "obj" => res.kids[j].k = kept[i].k
                 /\ Matches(res.kids[j].v, kept[i].v, Append(path, kept[i].k))

\* C29: every document sent by the JSON pass and the result of the pass are
\* well formed (arrays without gaps, no key twice); the container built for
\* the i-th trial of an input container holds the children of the input that
\* were not eliminated before and are not under test, an array in the order
\* of the input; and the result holds, at every depth, exactly the children
\* that were kept, an array in the order of the input.
C29_OrderKept ==
  /\ \A e \in Range(hist.json) :
       LET T == TrialsAt(e.path)
           node == NodeAt(originalBody.doc, e.path)
       IN /\ WellFormed(e.doc)
          /\ \A i \in 1..Len(T) :
               LET gone == {T[j].key : j \in {j \in 1..(i - 1) : T[j].accepted}} \cup {T[i].key}
               IN /\ WellFormed(T[i].part)
                  /\ Holds(T[i].part, node.t, ChildrenLeft(node.kids, gone))
  /\ JsonPassDone =>
       /\ WellFormed(minimalBody.doc)
       /\ Matches(minimalBody.doc, originalBody.doc, <<>>)

\* [[1], 2, 3] was reduced to [[1], 3]: the element in the middle is gone
C29_Witness ==
  /\ JsonPassDone
  /\ originalBody.doc = Arr(<<Entry("0", Arr(<<Entry("0", Num(1))>>)), Entry("1", Num(2)),
                             Entry("2", Num(3))>>)
  /\ minimalBody.doc = Arr(<<Entry("0", Arr(<<Entry("0", Num(1))>>)), Entry("1", Num(3))>>)

\* ------------------------------------------------- C30: the snapshot is kept
\* C30: the header map captured from the original request holds, from its
\* capture to the end of the run, the names and the values of the request as
\* it was captured, the whole Cookie value included.
C30_SnapshotKept == originalHeaders \in {<<>>, input.headers}

\* the part of C30 that the code keeps: the header map keeps its names, and
\* every header but Cookie keeps its values
C30_NamesKept ==
  originalHeaders # <<>> =>
    /\ Len(originalHeaders) = Len(input.headers)
    /\ \A i \in 1..Len(originalHeaders) :
         /\ originalHeaders[i].name = input.headers[i].name
         /\ toLowerCase(originalHeaders[i].name) # "cookie" => originalHeaders[i] = input.headers[i]

\* ------------------------------------------------------ C31: 1-minimality
\* The order of reduction on requests as the server sees them: a is b with
\* elements taken out.  Query keys and form parameters go with all their
\* occurrences, a header goes whole or, for Cookie, crumb by crumb, a JSON
\* document loses nodes with what is below them.
SubKeys(a, b) == a = SelectSeq(b, LAMBDA k : k \in Range(a))

RECURSIVE SubDoc(_, _)
SubDoc(a, b) ==
  /\ a.t = b.t
  /\ a.t = "num" => a.n = b.n
  /\ a.t = "obj" =>
       \A i \in 1..Len(a.kids) :
         \E j \in 1..Len(b.kids) : a.kids[i].k = b.kids[j].k /\ SubDoc(a.kids[i].v, b.kids[j].v)
  /\ a.t = "arr" =>
       \E f \in [1..Len(a.kids) -> 1..Len(b.kids)] :
         /\ \A i, j \in 1..Len(a.kids) : i < j => f[i] < f[j]
         /\ \A i \in 1..Len(a.kids) : SubDoc(a.kids[i].v, b.kids[f[i]].v)

SubHeaders(a, b) ==
  \A i \in 1..Len(a) :
    \E j \in 1..Len(b) :
      /\ a[i].name = b[j].name
      /\ \/ a[i].value = b[j].value
         \/ /\ a[i].name = "cookie"
            /\ Crumbs(a[i].value) # <<>>
            /\ Range(Crumbs(a[i].value)) \subseteq Range(Crumbs(b[j].value))

SubBody(a, b) ==
  IF a.type = "json" /\ b.type = "json" THEN SubDoc(a.doc, b.doc)
  ELSE IF a.type = "form" THEN SubKeys(a.params, BodyParams(b))
  ELSE a.type = b.type

SubRequest(a, b) ==
  /\ SubKeys(a.path.keys, b.path.keys)
  /\ SubHeaders(a.headers, b.headers)
  /\ SubBody(a.body, b.body)

\* the documents that are v less one node
RECURSIVE LessOneNode(_)
LessOneNode(v) ==
  LET n == Len(v.kids)
      drop(i) == [j \in 1..(n - 1) |-> IF j < i THEN v.kids[j] ELSE v.kids[j + 1]]
      index(kids) == IF v.t = "arr" THEN Renumber(kids) ELSE kids
  IN {[v EXCEPT !.kids = index(drop(i))] : i \in 1..n}
     \cup UNION {{[v EXCEPT !.kids[i].v = w] : w \in LessOneNode(v.kids[i].v)} : i \in 1..n}

\* the requests that are r less one element: a query key, a form key, a
\* header that is not protected (Host is not on the wire), a cookie crumb, a
\* JSON node
LessOne(r) ==
  LET free == {i \in 1..Len(r.headers) : ~DoNotRemove(r.headers[i].name)}
  IN {[r EXCEPT !.path.keys = Without(@, k)] : k \in Range(r.path.keys)}
     \cup (IF r.body.type = "form"
           THEN {[r EXCEPT !.body.params = Without(@, k)] : k \in Range(r.body.params)}
           ELSE {})
     \cup {[r EXCEPT !.headers = SelectSeq(@, LAMBDA h : h # r.headers[i])] : i \in free}
     \cup UNION {{[r EXCEPT !.headers[i].value = <<join(Without(Crumbs(r.headers[i].value), c))>>] :
                    c \in {c \in Range(Crumbs(r.headers[i].value)) :
                             Without(Crumbs(r.headers[i].value), c) # <<>>}} :
                  i \in {i \in free : r.headers[i].name = "cookie"}}
     \cup (IF r.body.type = "json"
           THEN {[r EXCEPT !.body.doc = d] : d \in LessOneNode(r.body.doc)}
           ELSE {})

\* the answers seen so far are those of a monotone server: no request that
\* was answered otherwise than the baseline lies between a request that was
\* answered like the baseline and the original
Equivalent(e) == compareResponses(BaselineResp, e.resp)

MonotoneSoFar ==
  \A a, r \in served :
    Equivalent(a) /\ ~Equivalent(r) =>
      ~(SubRequest(a.req, r.req) /\ SubRequest(r.req, Wire(BaselineRequest)))

\* a run with every stage on that no transport fault touched, at its end
CleanRun ==
  /\ pc = "done" /\ outcome.type = "success"
  /\ faults.sends = 0
  /\ \A f \in DOMAIN AllSteps : ~Off(f)

\* C31: at the end of a clean run whose answers are those of a monotone
\* server, every request that is the final request less one element lies
\* below a request that the server answered otherwise than the baseline: no
\* monotone server with these answers takes the smaller request for
\* equivalent.
C31_OneMinimal ==
  (CleanRun /\ MonotoneSoFar) =>
    \A c \in LessOne(Wire(finalSpec)) :
      \E e \in served :
        /\ ~Equivalent(e)
        /\ SubRequest(c, e.req)
        /\ SubRequest(e.req, Wire(BaselineRequest))

\* the part of C31 that the code keeps: the runs whose JSON trials carried
\* the committed headers and nothing else (a content-type header is among
\* them), and the runs without a JSON trial
C31_WithoutInjection ==
  (/\ CleanRun /\ MonotoneSoFar
   /\ \/ hist.json = <<>>
      \/ \E i \in 1..Len(minimalHeaders) : toLowerCase(minimalHeaders[i]) = "content-type") =>
    \A c \in LessOne(Wire(finalSpec)) :
      \E e \in served :
        /\ ~Equivalent(e)
        /\ SubRequest(c, e.req)
        /\ SubRequest(e.req, Wire(BaselineRequest))

\* --------------------------------- C32: the final request was a trial request
\* no header of the request matches an auto-removed pattern, and the JSON
\* pass sent nothing
NoAutoNoJson ==
  /\ \A i \in 1..Len(input.headers) : ~AutoRemoved(input.headers[i].name)
  /\ hist.json = <<>> /\ "json" \notin console

\* the request the final one is said to repeat
Repeated == IF hist.last.any THEN Wire(hist.last.spec) ELSE Wire(BaselineRequest)

\* C32: when no header is auto-removed and the JSON pass sent nothing, the
\* final request has the query, the headers (the Cookie value among them) and
\* the body of the trial accepted last or, when none was accepted, of the
\* original request.
C32_FinalIsLastAccepted ==
  (call.tag = "final" /\ NoAutoNoJson) =>
    /\ Wire(call.spec).path = Repeated.path
    /\ Wire(call.spec).headers = Repeated.headers
    /\ Wire(call.spec).body = Repeated.body

\* the part of C32 that the code keeps: the final request repeats the trial
\* accepted last; without an accepted trial it has the headers, the body and
\* the query parameters of the original request
C32_UpToQueryText ==
  (call.tag = "final" /\ NoAutoNoJson) =>
    /\ Wire(call.spec).path.keys = Repeated.path.keys
    /\ hist.last.any => Wire(call.spec).path = Repeated.path
    /\ Wire(call.spec).headers = Repeated.headers
    /\ Wire(call.spec).body = Repeated.body

\* ------------------------------------------------ C33: the oracle is total
\* C33: for every pair of responses compareResponses returns true or false.
C33_OracleTotal == pc = "compared" => hist.compared \in {"true", "false"}

\* the part of C33 that the code keeps: the comparison returns whenever the
\* original response has a body, a body of the JSON text null included, and
\* whenever the content type is not a JSON one
C33_TotalWithBody ==
  (pc = "compared" /\ (originalResp.body.present \/ ~IncludesJson(originalResp.ctype))) =>
    hist.compared \in {"true", "false"}

\* ------------------------------------------- C34: the last crumb stays
\* the trial without the whole Cookie header was answered and rejected
WholeCookieRejected ==
  \E i \in 1..Len(hist.cookie) :
    hist.cookie[i].crumb = "*" /\ hist.cookie[i].answered /\ ~hist.cookie[i].accepted

NoResponseTaken == call.status = "returned" /\ ~call.hasResp /\ call'.status = "idle"

\* C35: a send that resolves without a response ends the call of the wrapper
\* at once, with no retry and no wait; a trial that ends so commits nothing
\* and the run goes on (the JSON pass keeps the node under test); the
\* baseline that ends so ends the run in an error, with no trial; the final
\* send that ends so ends the run with a warning and without a session.
C35_NoResponse ==
  [][/\ (call'.attempts > call.attempts /\ call'.last = "noresp") =>
          /\ call'.status = "returned" /\ ~call'.hasResp
          /\ call'.retryCount = call.retryCount /\ call'.waits = call.waits
     /\ (NoResponseTaken /\ call.tag \in TrialTags) =>
          /\ pc' # "done" /\ outcome' = NoOutcome
          /\ UNCHANGED <<minimalQuery, bodyParams, minimalHeaders, cookies, originalHeaders>>
          /\ call.tag # "json" => minimalBody' = minimalBody
          /\ call.tag = "json" =>
               /\ ~Last(hist'.json).accepted
               /\ jstack' # <<>> =>
                    \E i \in 1..Len(jstack') :
                      Last(jstack).cur \in Range(jstack'[i].survivors) \cup Range(jstack'[i].recursed)
                                           \cup {jstack'[i].cur}
     /\ (NoResponseTaken /\ call.tag = "baseline") =>
          /\ pc' = "done" /\ outcome'.type = "error"
          /\ served' = {} /\ sessions' = 0
     /\ (NoResponseTaken /\ call.tag = "final") =>
          /\ pc' = "done" /\ outcome'.type = "warning"
          /\ sessions' = 0]_vars

\* the whole-Cookie trial returned without a response, the crumbs were tried
\* after it and the run ended well
C35_Witness ==
  /\ pc = "done" /\ outcome.type = "success"
  /\ Len(hist.cookie) >= 2 /\ ~hist.cookie[1].answered /\ ~hist.cookie[1].accepted

\* ------------------------------------------- C36: the body after the JSON pass
\* the body of the final request is the body of an accepted JSON trial
SentAccepted(body) ==
  \E i \in 1..Len(hist.json) :
    hist.json[i].accepted /\ body = JsonBody(hist.json[i].doc, TRUE)

\* C36: the body of the final request is the body the JSON pass was given or
\* a body sent in an accepted JSON trial; when the pass rejected every trial
\* it is the body the pass was given.
C36_BodyKept ==
  call.tag = "final" =>
    /\ call.spec.body = originalBody \/ SentAccepted(call.spec.body)
    /\ (\A i \in 1..Len(hist.json) : ~hist.json[i].accepted) => call.spec.body = originalBody

\* the part of C36 that the code keeps: the body of the final request is the
\* body the pass was given, that body written anew by stableStringify when
\* the pass ran to its end without an accepted trial, or the body of the
\* accepted trial sent last
C36_UpToStringify ==
  call.tag = "final" =>
    LET acc == {i \in 1..Len(hist.json) : hist.json[i].accepted}
    IN IF JsonPassDone
       THEN IF acc = {}
            THEN call.spec.body = JsonBody(stableStringify(originalBody.doc), TRUE)
            ELSE call.spec.body =
                   JsonBody(hist.json[CHOOSE i \in acc : \A j \in acc : j <= i].doc, TRUE)
       ELSE call.spec.body = originalBody

\* ---------------------------------------- C37: the number of JSON trials
\* the node a JSON trial tests, by the keys that lead to it from the root
Tested(e) == Append(e.path, e.key)

\* a path of keys leads to a node of the value
RECURSIVE IsNode(_, _)
IsNode(v, path) ==
  \/ path = <<>>
  \/ \E i \in 1..Len(v.kids) : v.kids[i].k = Head(path) /\ IsNode(v.kids[i].v, Tail(path))

\* what is left of the pass, counted in steps: the nodes not yet tested,
\* each for the sends of one call of the wrapper and the two steps around
\* them, and what is left of the call in progress
PassLeft ==
  LET sends == config.requestConfig.maxRetries + 1
      nodes == NodeCount(originalBody.doc) - 1 - Len(hist.json)
      ofCall == CASE call.status = "idle" -> sends + 2
                  [] call.status = "pending" -> sends + 1 - call.attempts
                  [] OTHER -> 0
  IN nodes * (sends + 3) + ofCall + (IF jstack = <<>> THEN 1 ELSE 0)

\* C37: every JSON trial tests a node of the input document below its root;
\* no node is tested twice; every node above a tested node was tested before
\* and kept; so the trials are at most the nodes below the root.  The pass
\* terminates: while it runs it is never stuck, and each of its steps makes
\* what is left of it smaller.
C37_TrialsBounded ==
  /\ [](/\ \A i \in 1..Len(hist.json) :
            LET node == Tested(hist.json[i])
            IN /\ IsNode(originalBody.doc, node)
               /\ \A j \in 1..(i - 1) : Tested(hist.json[j]) # node
               /\ \A n \in 1..(Len(node) - 1) :
                    \E j \in 1..(i - 1) :
                      Tested(hist.json[j]) = SubSeq(node, 1, n) /\ ~hist.json[j].accepted
         /\ (hist.json # <<>> => Len(hist.json) <= NodeCount(originalBody.doc) - 1)
         /\ ((pc = "json" /\ jstack # <<>>) =>
              /\ PassLeft >= 0
              /\ (call.status = "idle" => Last(jstack).work # <<>>)
              /\ (call.status # "idle" => call.tag = "json")))
  /\ [][(pc = "json" /\ jstack # <<>> /\ pc' = "json" /\ <<call, jstack>>' # <<call, jstack>>) =>
         PassLeft' < PassLeft]_vars

\* [[1], 2, 3]: three trials at the root and one inside the kept [1], as many
\* as there are nodes below the root
C37_Witness ==
  /\ JsonPassDone
  /\ originalBody.doc = Arr(<<Entry("0", Arr(<<Entry("0", Num(1))>>)), Entry("1", Num(2)),
                             Entry("2", Num(3))>>)
  /\ Len(hist.json) = 4

\* ------------------------------------------ C38: header names in any case
\* the request has a header of this name, in whatever case it is spelled
HasAnyCase(name) ==
  \E i \in 1..Len(input.headers) : toLowerCase(input.headers[i].name) = name

\* Host and Cookie are recognised in any case: Host is never the subject of
\* a trial and is on no request but the baseline; a Cookie header is tried by
\* the cookie trials, never as a plain header
HostCookieAnyCase ==
  /\ call.tag \in TrialTags =>
       \A i \in 1..Len(call.spec.headers) : call.spec.headers[i].name # "host"
  /\ call.tag = "header" => toLowerCase(call.subj) \notin {"host", "cookie"}
  /\ (HasAnyCase("cookie") /\ pc \in {"json", "final", "session"}) => hist.cookie # <<>>

\* C38: Host and Cookie are recognised in any case, and a request with a
\* body whose content-type header, spelled in any case, has the form value
\* has the keys of its body tried by the form stage.
C38_AnyCase ==
  /\ HostCookieAnyCase
  /\ (/\ PastForm /\ input.body.type # "none" /\ ~Off("formBodyParameters")
      /\ \E i \in 1..Len(input.headers) :
           /\ toLowerCase(input.headers[i].name) = "content-type"
           /\ input.headers[i].value = <<FormType>>) =>
       [i \in 1..Len(TrialsOf("form")) |-> TrialsOf("form")[i].key]
         = FirstSeen(BodyParams(input.body))

\* ------------------------------------------- C39: patterns over header names
\* a glob over the whole of a name: each "*" stands for any run of characters,
\* letters are compared without regard to case, and nothing of the name is
\* left over
RECURSIVE GlobWhole(_, _)
GlobWhole(p, n) ==
  IF p = <<>> THEN n = <<>>
  ELSE IF Head(p) = "*"
       THEN \E i \in 0..Len(n) : GlobWhole(Tail(p), SubSeq(n, i + 1, Len(n)))
       ELSE /\ n # <<>>
            /\ LowerChar(Head(n)) = LowerChar(Head(p))
            /\ GlobWhole(Tail(p), Tail(n))

GlobAny(h, patterns) ==
  \E k \in 1..Len(patterns) : GlobWhole(Spelling[patterns[k]], Spelling[h])

\* the patterns match some part of the name; a pattern that is no regular
\* expression matches the whole name only
PartAny(h, patterns) ==
  \E k \in 1..Len(patterns) :
    LET p == Spelling[patterns[k]]
    IN IF \E i \in 1..Len(p) : p[i] = "["
       THEN GlobWhole(p, Spelling[h])
       ELSE GlobWhole(<<"*">> \o p \o <<"*">>, Spelling[h])

\* the header stage is about to take up the header at the head of its list
TakesUp == pc = "headers" /\ call.status = "idle" /\ todo # <<>>

\* C39: in the step of the header stage that takes a header up, the header is
\* kept without a trial exactly when a doNotRemove pattern
\* matches its whole name as a glob, is dropped without a trial exactly when
\* no such pattern does and an autoRemoved pattern matches its whole name, and
\* is put to a trial otherwise.
C39_WholeNameGlob ==
  [][(TakesUp /\ <<pc, call, todo>>' # <<pc, call, todo>>) =>
       LET h == Head(todo)
           untried == pc' = "headers" /\ call' = call /\ todo' = Tail(todo)
       IN IF GlobAny(h, config.doNotRemoveHeaders)
          THEN untried /\ minimalHeaders' = minimalHeaders
          ELSE IF GlobAny(h, config.autoRemovedHeaders)
               THEN untried /\ minimalHeaders' = Without(minimalHeaders, h)
               ELSE call'.tag = "header" /\ call'.subj = h]_vars

\* what the header stage does: the same with patterns that match a part of
\* the name
C39_PartOfName ==
  [][(TakesUp /\ <<pc, call, todo>>' # <<pc, call, todo>>) =>
       LET h == Head(todo)
           untried == pc' = "headers" /\ call' = call /\ todo' = Tail(todo)
       IN IF PartAny(h, config.doNotRemoveHeaders)
          THEN untried /\ minimalHeaders' = minimalHeaders
          ELSE IF PartAny(h, config.autoRemovedHeaders)
               THEN untried /\ minimalHeaders' = Without(minimalHeaders, h)
               ELSE call'.tag = "header" /\ call'.subj = h]_vars

====
